---- MODULE Spec2Model ----
(***************************************************************************)
(* Model of tensorflow/python/ops/seq2seq.py: the decoder loops            *)
(* (rnn_decoder, attention_decoder), the bucketed assembly                 *)
(* (model_with_buckets_states) and the sequence loss                       *)
(* (sequence_loss_by_example).                                             *)
(*                                                                         *)
(* Tensors are modelled by their rows: a [batch x n] tensor is a function  *)
(* from Batch to a row.  Token ids are Symbols, embedded vectors and cell  *)
(* states are small integers, logits are functions from Symbols to         *)
(* integers.  An optional value (Python None) is the empty sequence <<>>   *)
(* and a present value v is <<v>>; an optional number is -1 when None.     *)
(***************************************************************************)
EXTENDS Integers, Sequences, FiniteSets, TLC

VARIABLES
  args,      \* arguments of the decoder call under way
  pc,        \* position of the decoder call: "check", "loop", "done", "raised"
  state,     \* rnn_decoder / attention_decoder local `state`
  prev,      \* local `prev`: <<>> is None, <<o>> is the previous output o
  outputs,   \* local `outputs`
  attns,     \* attention_decoder local `attns` (one context row per head)
  inps,      \* the input consumed by cell at each step built so far
  rvs,       \* the uniform draw `rv` of each step (-1: no draw at that step)
  used_loop, \* whether loop_function produced the input of each step
  err,       \* the exception raised by the decoder call, "" when none
  bk,        \* model_with_buckets_states: arguments and locals
  ls,        \* sequence_loss_by_example: arguments and locals
  sq,        \* the seq2seq builder call: arguments, locals, what it built
  rd         \* the ptb_iterator generator: arguments, locals, what it yielded

vars == <<args, pc, state, prev, outputs, attns, inps, rvs, used_loop, err, bk, ls,
          sq, rd>>

decvars == <<args, pc, state, prev, outputs, attns, inps, rvs, used_loop, err>>

-----------------------------------------------------------------------------
(* Bounds of the model. *)

NumSymbols == 2
BatchSize == 2
MaxLen == 3
RScale == 2
MaxHeads == 2
MaxInputs == 2
MaxBucket == 2
MaxBuckets == 2
MaxLossLen == 2
LatentSize == 2
AnnealDen == 2

Symbols == 0..(NumSymbols - 1)
Batch == 1..BatchSize

\* Python None for optional numbers (feed_prev_p).
NoneP == -1

\* Size of the state space of the modelled cell, and the attention length.
StateMod == 3
AttnLength == 2

\* Sequences over S of length at most n.
SeqUpTo(S, n) == UNION {[1..k -> S] : k \in 0..n}

RECURSIVE SumSeq(_)
SumSeq(s) == IF s = <<>> THEN 0 ELSE s[1] + SumSeq(Tail(s))

-----------------------------------------------------------------------------
(* Library operations used by the decoders. *)

\* math_ops.argmax(prev, 1): per row, the smallest index holding the maximum.
argmax(t) ==
  [b \in Batch |->
     CHOOSE k \in Symbols :
        /\ \A j \in Symbols : t[b][j] <= t[b][k]
        /\ \A j \in Symbols : (t[b][j] = t[b][k]) => k <= j]

\* embedding_ops.embedding_lookup(embedding, ids).
embedding_lookup(embedding, ids) == [b \in Batch |-> embedding[ids[b]]]

\* nn_ops.xw_plus_b(prev, W, B) for the modelled projection pair: W reverses
\* the coordinates and B adds the coordinate index.
xw_plus_b(t) ==
  [b \in Batch |-> [k \in Symbols |-> t[b][NumSymbols - 1 - k] + k]]

\* The cell contract (input, state) -> (output, new_state).
cell_state(inp, st) == [b \in Batch |-> (st[b] + inp[b]) % StateMod]

cell_output(inp, st) ==
  [b \in Batch |->
     [k \in Symbols |-> (cell_state(inp, st)[b] * (k + 1)) % StateMod]]

\* The embedding table a call finds in the variable store.
EmbeddingTables == { [s \in Symbols |-> s + 1] }

\* The rows of token ids the calls are run on: the examples of a batch hold
\* different tokens.
TokenRows == { [b \in Batch |-> (b + s) % NumSymbols] : s \in Symbols }

\* The rows of target weights: 1 for the first c examples, 0 (padding) for
\* the others.
WeightRows == { [b \in Batch |-> IF b <= c THEN 1 ELSE 0] : c \in 0..BatchSize }

\* initial_state handed to the decoder.
InitialState == [b \in Batch |-> b % StateMod]

\* attention_states [batch x attn_length x attn_size], attn_size = 1.
attention_states == [b \in Batch |-> [t \in 1..AttnLength |-> (b + t) % StateMod]]

-----------------------------------------------------------------------------
(* _extract_argmax_and_embed and the input selection of rnn_decoder. *)

\* loop_function(prev, _) returned by _extract_argmax_and_embed.
loop_function(a, p) ==
  LET projected == IF a.output_projection = "None" THEN p ELSE xw_plus_b(p)
      prev_symbol == argmax(projected)
  IN  embedding_lookup(a.embedding, prev_symbol)

\* inner_loop without the test `prev is not None`: at step 0 loop_function is
\* applied to an all-zero output.
inner_loop_no_prev_test(a, p, inp, feed_prev) ==
  IF feed_prev
    THEN loop_function(a, IF p = <<>> THEN [b \in Batch |-> [k \in Symbols |-> 0]]
                                      ELSE p[1])
    ELSE inp

\* inner_loop(prev, inp, i, feed_prev) of rnn_decoder.
inner_loop(a, p, inp, feed_prev) ==
  IF feed_prev /\ p # <<>> THEN loop_function(a, p[1]) ELSE inp

\* Whether inner_loop applies loop_function.
inner_loop_uses_loop(p, feed_prev) == feed_prev /\ p # <<>>

\* feed_prev of the scheduled-sampling branch:
\* (loop_function is not None) and tf.less(rv, feed_prev_p).
less_rv(a, rv) == (a.loop_function # "None") /\ (rv < a.feed_prev_p)

\* A selection made per example: the first example of the batch takes fn1 and
\* the others fn2, whatever the predicate.
cond_input_per_example(a, pred, p, inp) ==
  [b \in Batch |-> IF b = 1 THEN inner_loop(a, p, inp, FALSE)[b]
                            ELSE inner_loop(a, p, inp, TRUE)[b]]

\* control_flow_ops.cond(feed_prev, fn1, fn2) of rnn_decoder: fn1 is
\* inner_loop(..., feed_prev=False) and fn2 is inner_loop(..., feed_prev=True).
cond_input(a, pred, p, inp) ==
  IF pred THEN inner_loop(a, p, inp, FALSE) ELSE inner_loop(a, p, inp, TRUE)

cond_uses_loop(pred, p) ==
  IF pred THEN inner_loop_uses_loop(p, FALSE) ELSE inner_loop_uses_loop(p, TRUE)

\* emb_inp of embedding_rnn_decoder / embedding_attention_decoder.
emb_inp(a) ==
  [k \in 1..Len(a.decoder_inputs) |->
     embedding_lookup(a.embedding, a.decoder_inputs[k])]

\* loop_function chosen by embedding_rnn_decoder.
embedding_rnn_decoder_loop(feed_previous, feed_prev_p) ==
  LET schedule == (feed_prev_p # NoneP)
  IN  IF feed_previous \/ schedule THEN "argmax_embed" ELSE "None"

-----------------------------------------------------------------------------
(* The attention mechanism of attention_decoder. *)

\* exp on the scores the model produces (-1, 0, 1), scaled by 2.
exp2(x) == IF x = -1 THEN 1 ELSE IF x = 0 THEN 2 ELSE 4

\* hidden_features[a] = conv2d(hidden, AttnW_a): the learned transform of head a.
hidden_features(a, b, t) == (2 * attention_states[b][t] + a) % StateMod

\* y = linear(query, attention_vec_size, True) inside scope Attention_a.
attention_query(a, query, b) == (query[b] + a) % StateMod

\* s = reduce_sum(v[a] * tanh(hidden_features[a] + y)), then s = s * src_mask.
attention_score(a, src_mask, query, b, t) ==
  LET s == ((hidden_features(a, b, t) + attention_query(a, query, b)) % 3) - 1
  IN  IF src_mask # <<>> THEN s * src_mask[1][b][t] ELSE s

\* a = nn_ops.softmax(s): numerator of the weight of position t, and the
\* common denominator.
softmax_num(a, src_mask, query, b, t) ==
  exp2(attention_score(a, src_mask, query, b, t))

\* A denominator taken over the scores before src_mask is applied.
softmax_den_unmasked(a, src_mask, query, b) ==
  SumSeq([t \in 1..AttnLength |-> softmax_num(a, <<>>, query, b, t)])

softmax_den(a, src_mask, query, b) ==
  SumSeq([t \in 1..AttnLength |-> softmax_num(a, src_mask, query, b, t)])

\* d = reduce_sum(a * hidden): in fixed point with two fractional bits.
attention_context(a, src_mask, query, b) ==
  (4 * SumSeq([t \in 1..AttnLength |->
        softmax_num(a, src_mask, query, b, t) * attention_states[b][t]]))
    \div softmax_den(a, src_mask, query, b)

\* attention(query): one context row per head.
attention(ar, query) ==
  [a \in 1..ar.num_heads |->
     [b \in Batch |-> attention_context(a, ar.src_mask, query, b)]]

\* attns = [zeros(batch_attn_size) for _ in xrange(num_heads)].
zero_attns(ar) == [a \in 1..ar.num_heads |-> [b \in Batch |-> 0]]

\* Initial attns that are zeros whatever initial_state_attention is.
initial_attns_zeros(ar, initial_state) == zero_attns(ar)

\* attns before the loop: zeros, or attention(initial_state) when
\* initial_state_attention is set.
initial_attns(ar, initial_state) ==
  IF ar.initial_state_attention THEN attention(ar, initial_state)
                                ELSE zero_attns(ar)

\* x = linear([inp] + attns, input_size, True).
linear_input(inp, at) ==
  [b \in Batch |-> inp[b] + SumSeq([a \in 1..Len(at) |-> at[a][b]])]

\* output = linear([cell_output] + attns, output_size, True).
linear_output(co, at) ==
  [b \in Batch |->
     [k \in Symbols |->
        (co[b][k] + (k + 1) * SumSeq([a \in 1..Len(at) |-> at[a][b]])) % 5]]

\* merge_output_plus_b = bias_add(linear([cell_output] + [inp] + attns,
\* cell.output_size, True), maxout_b): one row of cell.output_size slots per
\* example.
merge_output_plus_b(ar, co, inp, at) ==
  [b \in Batch |->
     [j \in 1..ar.cell_output_size |->
        (co[b][(j - 1) % NumSymbols] + j * inp[b]
           + (j + 1) * SumSeq([a \in 1..Len(at) |-> at[a][b]]) + j) % 7]]

\* segment_ids = [0, 0, 1, 1, ...]: the flattened list of [i, i] for i in
\* xrange(maxout_size).
segment_ids(maxout_size) == [r \in 1..(2 * maxout_size) |-> (r - 1) \div 2]

\* tf.segment_max refuses segment_ids that do not hold one id per row of data.
segment_max_rejects(data, ids) == Len(ids) # Len(data)

\* tf.segment_max(data, ids): row seg holds the maximum of the rows of data
\* whose id is seg.
segment_max(data, ids) ==
  [seg \in 1..(IF ids = <<>> THEN 0 ELSE ids[Len(ids)] + 1) |->
     LET rows == {data[r] : r \in {q \in DOMAIN ids : ids[q] = seg - 1}}
     IN  CHOOSE m \in rows : \A v \in rows : v <= m]

\* maxout_output = transpose(segment_max(transpose(merge_output_plus_b),
\* segment_ids)) with maxout_size = cell.output_size // 2.
maxout(ar, merged) ==
  [b \in Batch |->
     segment_max(merged[b], segment_ids(ar.cell_output_size \div 2))]

\* output = linear([linear([maxout_output], embedding_size, False)],
\* output_size, True): the two chained projections.
maxout_projections(mo) ==
  [b \in Batch |->
     [k \in Symbols |->
        (SumSeq([j \in 1..Len(mo[b]) |-> (j + k) * mo[b][j]]) + k) % 5]]

\* An output layer that leaves the logits as they are.
bow_mask_ignored(output, bow_mask) == output

\* output = output * bow_mask when a bow_mask is given.
bow_masked(output, bow_mask) ==
  IF bow_mask # <<>>
    THEN [b \in Batch |-> [k \in Symbols |-> output[b][k] * bow_mask[1][b][k]]]
    ELSE output

\* An iteration whose output is computed from the contexts merged into the
\* input, those of the step before.
attention_step_stale_contexts(ar, st, at, inp) ==
  LET x == linear_input(inp, at)
      new_state == cell_state(x, st)
      logits == linear_output(cell_output(x, st), at)
  IN  [x |-> x, state |-> new_state, attns |-> attention(ar, new_state),
       merged |-> <<>>, maxout_output |-> <<>>, logits |-> logits,
       output |-> bow_masked(logits, ar.bow_mask), err |-> ""]

\* One iteration of the loop of attention_decoder on the selected input inp,
\* from the state st and the contexts at: the locals it binds, in the order
\* merge, cell, attention, output layer, bow mask.
attention_step(ar, st, at, inp) ==
  LET x == linear_input(inp, at)
      co == cell_output(x, st)
      new_state == cell_state(x, st)
      new_attns == attention(ar, new_state)
      merged == IF ar.maxout_layer
                  THEN merge_output_plus_b(ar, co, inp, new_attns) ELSE <<>>
      ids == segment_ids(ar.cell_output_size \div 2)
      rejected == ar.maxout_layer /\ segment_max_rejects(merged[1], ids)
      mo == IF ar.maxout_layer /\ ~rejected THEN maxout(ar, merged) ELSE <<>>
      logits == IF rejected THEN <<>>
                ELSE IF ar.maxout_layer THEN maxout_projections(mo)
                ELSE linear_output(co, new_attns)
  IN  [x |-> x, state |-> new_state, attns |-> new_attns, merged |-> merged,
       maxout_output |-> mo, logits |-> logits,
       output |-> IF rejected THEN <<>> ELSE bow_masked(logits, ar.bow_mask),
       err |-> IF rejected THEN "InvalidArgumentError: segment_ids" ELSE ""]

\* is_LSTM_cell and is_LSTM_cell_with_dropout; a cell is the list of the class
\* names from the cell itself down to its first innermost cell (get_cell() of
\* a BOWCell, _cell of a DropoutWrapper, _cells[0] of a MultiRNNCell).
is_LSTM_cell(cell) ==
  cell # <<>> /\ cell[1] \in {"LSTMCell", "BasicLSTMCell"}

is_LSTM_cell_with_dropout(cell) ==
  cell # <<>> /\ cell[1] = "DropoutWrapper" /\ is_LSTM_cell(Tail(cell))

\* A test that accepts every BOWCell.
init_state_any_bow_cell(cell) == cell # <<>> /\ cell[1] = "BOWCell"

\* The test of init_state: a BOWCell around an LSTM cell, a dropout-wrapped
\* LSTM cell, or a MultiRNNCell whose first layer is one of the two.
init_state_supported(cell) ==
  /\ cell # <<>> /\ cell[1] = "BOWCell"
  /\ LET inner == Tail(cell)
     IN  \/ is_LSTM_cell(inner)
         \/ is_LSTM_cell_with_dropout(inner)
         \/ /\ inner # <<>> /\ inner[1] = "MultiRNNCell"
            /\ \/ is_LSTM_cell(Tail(inner))
               \/ is_LSTM_cell_with_dropout(Tail(inner))

\* a = softmax(ones * src_mask): numerator of the weight of position t.
init_state_weight(src_mask, b, t) ==
  exp2(IF src_mask # <<>> THEN src_mask[1][b][t] ELSE 1)

\* C = reduce_sum(a * hidden), in fixed point with two fractional bits.
init_state_C(src_mask, b) ==
  (4 * SumSeq([t \in 1..AttnLength |->
        init_state_weight(src_mask, b, t) * attention_states[b][t]]))
    \div SumSeq([t \in 1..AttnLength |-> init_state_weight(src_mask, b, t)])

\* The state init_state() returns: concat [C, tanh(C)], repeated num_layers
\* times under a MultiRNNCell, as the cell of the model holds it.
init_state(ar) ==
  LET layers == IF is_LSTM_cell(Tail(ar.cell))
                     \/ is_LSTM_cell_with_dropout(Tail(ar.cell))
                  THEN 1 ELSE ar.num_layers
  IN  [b \in Batch |->
         (layers * (init_state_C(ar.src_mask, b)
                      + (init_state_C(ar.src_mask, b) \div 2))) % StateMod]

\* state = variable_scope.get_variable("DecInit", ...) under init_const.
DecInit == [b \in Batch |-> 0]

\* The state the loop of attention_decoder starts from, <<>> when init_state
\* raises NotImplementedError.
attention_decoder_state(ar, initial_state) ==
  IF ar.encoder = "bow"
    THEN IF ar.init_const THEN <<DecInit>>
         ELSE IF init_state_supported(ar.cell) THEN <<init_state(ar)>>
         ELSE <<>>
    ELSE <<initial_state>>

\* The checks without the one on num_heads.
attention_decoder_checks_no_heads(ar) ==
  IF ar.decoder_inputs = <<>> THEN "ValueError: no inputs"
  ELSE IF ~ar.attn_size_known THEN "ValueError: attention_states shape"
  ELSE ""

\* The three checks at the head of attention_decoder; "" when all pass.
attention_decoder_checks(ar) ==
  IF ar.decoder_inputs = <<>> THEN "ValueError: no inputs"
  ELSE IF ar.num_heads < 1 THEN "ValueError: num_heads"
  ELSE IF ~ar.attn_size_known THEN "ValueError: attention_states shape"
  ELSE ""

\* The input attention_decoder selects for step i (0-based), and whether
\* loop_function produced it.
attention_uses_loop(ar, p) == ar.loop_function # "None" /\ p # <<>>

\* A selection that reads the decoder input of the step after i when there is
\* one.
attention_step_input_ahead(ar, p, i) ==
  IF ar.loop_function # "None" /\ p # <<>> THEN loop_function(ar, p[1])
  ELSE emb_inp(ar)[IF i + 2 <= Len(ar.decoder_inputs) THEN i + 2 ELSE i + 1]

attention_step_input(ar, p, i) ==
  IF attention_uses_loop(ar, p) THEN loop_function(ar, p[1])
  ELSE emb_inp(ar)[i + 1]

\* inp.get_shape().with_rank(2)[1].value is not None, for the input of step i.
input_size_known(ar, p, i) ==
  IF attention_uses_loop(ar, p) THEN ar.loop_width_known
  ELSE ar.unknown_width_at # i + 1

-----------------------------------------------------------------------------
(* Arguments of the decoder calls. *)

DecoderInputs == SeqUpTo(TokenRows, MaxLen)

DefaultArgs ==
  [entry |-> "", decoder_inputs |-> <<>>,
   embedding |-> [s \in Symbols |-> s + 1],
   output_projection |-> "None", feed_previous |-> FALSE,
   feed_prev_p |-> NoneP, loop_function |-> "None",
   num_heads |-> 1, attn_size_known |-> TRUE, unknown_width_at |-> 0,
   loop_width_known |-> TRUE, initial_state_attention |-> FALSE,
   src_mask |-> <<>>, maxout_layer |-> FALSE, cell_output_size |-> NumSymbols,
   bow_mask |-> <<>>, encoder |-> "reverse", init_const |-> FALSE,
   cell |-> <<"LSTMCell">>, num_layers |-> 1]

\* embedding_rnn_decoder(decoder_inputs, ..., output_projection,
\*                       feed_previous, ..., feed_prev_p)
EmbeddingRnnDecoderArgs ==
  { [DefaultArgs EXCEPT !.entry = "embedding_rnn_decoder",
                        !.decoder_inputs = d, !.embedding = e,
                        !.output_projection = op, !.feed_previous = fp,
                        !.feed_prev_p = p,
                        !.loop_function = embedding_rnn_decoder_loop(fp, p)] :
      d \in DecoderInputs, e \in EmbeddingTables, op \in {"None", "proj"},
      fp \in BOOLEAN, p \in {NoneP} \cup (0..RScale) }

\* rnn_decoder(decoder_inputs, initial_state, cell, loop_function, feed_prev_p)
RnnDecoderArgs ==
  { [DefaultArgs EXCEPT !.entry = "rnn_decoder", !.decoder_inputs = d,
                        !.loop_function = lf, !.feed_prev_p = p] :
      d \in DecoderInputs, lf \in {"None", "argmax_embed"},
      p \in {NoneP} \cup (0..RScale) }

SrcMasks == { <<>>, <<[b \in Batch |-> [t \in 1..AttnLength |-> IF t = 1 THEN 1 ELSE 0]]>> }

\* attention_decoder(decoder_inputs, initial_state, attention_states, cell,
\*                   num_heads, loop_function, initial_state_attention, src_mask)
AttentionDecoderArgs ==
  { [DefaultArgs EXCEPT !.entry = "attention_decoder", !.decoder_inputs = d,
                        !.loop_function = lf, !.num_heads = nh,
                        !.attn_size_known = ak, !.unknown_width_at = uw,
                        !.loop_width_known = lw,
                        !.initial_state_attention = isa, !.src_mask = sm] :
      d \in DecoderInputs, lf \in {"None", "argmax_embed"},
      nh \in 0..MaxHeads, ak \in BOOLEAN, uw \in 0..MaxLen, lw \in BOOLEAN,
      isa \in BOOLEAN, sm \in SrcMasks }

\* A src_mask that is zero everywhere and one that is one everywhere.
ConstantMask(c) == <<[b \in Batch |-> [t \in 1..AttnLength |-> c]]>>

\* attention_decoder calls that pass the checks, with a constant src_mask.
AttentionDecoderMaskArgs ==
  { [DefaultArgs EXCEPT !.entry = "attention_decoder", !.decoder_inputs = d,
                        !.loop_function = lf, !.num_heads = nh,
                        !.initial_state_attention = isa, !.src_mask = sm] :
      d \in DecoderInputs \ {<<>>}, lf \in {"None", "argmax_embed"},
      nh \in 1..MaxHeads, isa \in BOOLEAN,
      sm \in {ConstantMask(0), ConstantMask(1)} }


\* The records of the calls that are not under way.
IdleLs ==
  [pc |-> "idle", logits |-> <<>>, targets |-> <<>>, weights |-> <<>>,
   average_across_timesteps |-> TRUE, log_perp_list |-> <<>>,
   result |-> <<>>, err |-> ""]

IdleBk ==
  [pc |-> "idle", encoder_inputs |-> <<>>, decoder_inputs |-> <<>>,
   targets |-> <<>>, weights |-> <<>>, buckets |-> <<>>,
   outputs |-> <<>>, losses |-> <<>>, err |-> "",
   seq2seq |-> [kind |-> "embedding_rnn_seq2seq", arity |-> 5,
                num_heads |-> 1, initial_state_attention |-> FALSE,
                kl_obj |-> <<>>],
   weight |-> [b \in Batch |-> 1], per_example_loss |-> FALSE,
   calls |-> <<>>, store |-> {}, stores |-> <<>>]

IdleSq ==
  [fn |-> "", pc |-> "idle", err |-> "", encoder |-> "None",
   init_backward |-> FALSE, feed_previous |-> "False", feed_prev_p |-> NoneP,
   hidden_state |-> <<>>, latent_state |-> <<>>, sample_mean |-> FALSE,
   kl_min |-> 0, anneal_scale |-> NoneP, concat_encoded |-> FALSE,
   tuple_state |-> FALSE, encoder_value |-> <<>>, eps |-> <<>>,
   bound |-> {}, built |-> <<>>, z |-> <<>>, kl_obj |-> <<>>,
   decoder_state |-> <<>>, decoder_p |-> NoneP, ret |-> <<>>,
   z_gain |-> [mean |-> 4, log_var |-> 4]]

IdleRd ==
  [pc |-> "idle", raw_data |-> <<>>, batch_size |-> 1, num_steps |-> 1,
   start_idx |-> 0, data |-> <<>>, epoch_size |-> 0, i |-> 0,
   yielded |-> <<>>, err |-> ""]

-----------------------------------------------------------------------------
(* The decoder calls as a state machine. *)

\* A call of a decoder with its arguments drawn from S, before its first step.
InitFrom(S) ==
  /\ args \in S
  /\ pc = IF args.entry = "attention_decoder" THEN "check" ELSE "loop"
  /\ state = InitialState
  /\ prev = <<>>
  /\ outputs = <<>>
  /\ attns = <<>>
  /\ inps = <<>>
  /\ rvs = <<>>
  /\ used_loop = <<>>
  /\ err = ""
  /\ bk = IdleBk
  /\ ls = IdleLs
  /\ sq = IdleSq
  /\ rd = IdleRd

Init ==
  InitFrom(EmbeddingRnnDecoderArgs \cup RnnDecoderArgs \cup AttentionDecoderArgs
             \cup AttentionDecoderMaskArgs)

IsRnnEntry == args.entry \in {"embedding_rnn_decoder", "rnn_decoder"}

\* One iteration of rnn_decoder's loop with the input `inp` selected.
RnnRunCell(inp, rv, ul) ==
  /\ state' = cell_state(inp, state)
  /\ outputs' = Append(outputs, cell_output(inp, state))
  /\ prev' = <<cell_output(inp, state)>>
  /\ inps' = Append(inps, inp)
  /\ rvs' = Append(rvs, rv)
  /\ used_loop' = Append(used_loop, ul)
  /\ UNCHANGED <<args, pc, attns, err, bk, ls, sq, rd>>

\* rnn_decoder, an iteration without scheduled sampling (feed_prev_p is None).
RnnDecoderStep ==
  /\ pc = "loop" /\ IsRnnEntry
  /\ Len(outputs) < Len(args.decoder_inputs)
  /\ args.feed_prev_p = NoneP
  /\ LET inp == emb_inp(args)[Len(outputs) + 1]
         feed_prev == (args.loop_function # "None")
     IN  RnnRunCell(inner_loop(args, prev, inp, feed_prev), -1,
                    inner_loop_uses_loop(prev, feed_prev))

\* rnn_decoder, an iteration with scheduled sampling: both branches of cond
\* are built, the draw rv selects the one that runs.
RnnDecoderSampledStep ==
  /\ pc = "loop" /\ IsRnnEntry
  /\ Len(outputs) < Len(args.decoder_inputs)
  /\ args.feed_prev_p # NoneP
  /\ ~(prev # <<>> /\ args.loop_function = "None")
  /\ \E rv \in 0..(RScale - 1) :
       LET inp == emb_inp(args)[Len(outputs) + 1]
           feed_prev == less_rv(args, rv)
       IN  RnnRunCell(cond_input(args, feed_prev, prev, inp), rv,
                      cond_uses_loop(feed_prev, prev))

\* rnn_decoder with feed_prev_p set and no loop_function: feed_prev is the
\* Python value False.  cond refuses a Python bool as predicate in the library
\* versions that test for it (then already at step 0); in the others, building
\* the second branch calls loop_function, which is None, once prev is set.
RnnDecoderSampledNoLoop ==
  /\ pc = "loop" /\ IsRnnEntry
  /\ Len(outputs) < Len(args.decoder_inputs)
  /\ args.feed_prev_p # NoneP
  /\ args.loop_function = "None"
  /\ pc' = "raised"
  /\ err' = "TypeError"
  /\ UNCHANGED <<args, state, prev, outputs, attns, inps, rvs, used_loop, bk, ls, sq, rd>>

\* A return taken when the last input has not been consumed yet.
DecoderReturnOneShort ==
  /\ pc = "loop"
  /\ Len(outputs) + 1 >= Len(args.decoder_inputs)
  /\ pc' = "done"
  /\ UNCHANGED <<args, state, prev, outputs, attns, inps, rvs, used_loop, err, bk, ls, sq, rd>>

\* return outputs, state
DecoderReturn ==
  /\ pc = "loop"
  /\ Len(outputs) = Len(args.decoder_inputs)
  /\ pc' = "done"
  /\ UNCHANGED <<args, state, prev, outputs, attns, inps, rvs, used_loop, err, bk, ls, sq, rd>>

\* attention_decoder up to the loop: the argument checks, the state the loop
\* starts from, then the initial attns.
AttentionDecoderEnter ==
  /\ pc = "check" /\ args.entry = "attention_decoder"
  /\ IF attention_decoder_checks(args) # ""
       THEN /\ pc' = "raised"
            /\ err' = attention_decoder_checks(args)
            /\ UNCHANGED <<state, attns>>
       ELSE IF attention_decoder_state(args, InitialState) = <<>>
         THEN /\ pc' = "raised"
              /\ err' = "NotImplementedError"
              /\ UNCHANGED <<state, attns>>
         ELSE /\ pc' = "loop"
              /\ err' = ""
              /\ state' = attention_decoder_state(args, InitialState)[1]
              /\ attns' = initial_attns(args, InitialState)
  /\ UNCHANGED <<args, prev, outputs, inps, rvs, used_loop, bk, ls, sq, rd>>

\* One iteration of attention_decoder's loop.
AttentionDecoderStep ==
  /\ pc = "loop" /\ args.entry = "attention_decoder"
  /\ Len(outputs) < Len(args.decoder_inputs)
  /\ input_size_known(args, prev, Len(outputs))
  /\ LET i == Len(outputs)
         inp == attention_step_input(args, prev, i)
     IN  \E step \in {attention_step(args, state, attns, inp)} :
         IF step.err # ""
           THEN /\ pc' = "raised"
                /\ err' = step.err
                /\ UNCHANGED <<state, attns, prev, outputs, inps, rvs, used_loop>>
           ELSE /\ state' = step.state
                /\ attns' = step.attns
                /\ prev' = IF args.loop_function # "None" THEN <<step.output>>
                                                          ELSE prev
                /\ outputs' = Append(outputs, step.output)
                /\ inps' = Append(inps, inp)
                /\ rvs' = Append(rvs, -1)
                /\ used_loop' = Append(used_loop, attention_uses_loop(args, prev))
                /\ UNCHANGED <<pc, err>>
  /\ UNCHANGED <<args, bk, ls, sq, rd>>

\* attention_decoder: the input size of the step's input cannot be inferred.
AttentionDecoderInputSizeError ==
  /\ pc = "loop" /\ args.entry = "attention_decoder"
  /\ Len(outputs) < Len(args.decoder_inputs)
  /\ ~input_size_known(args, prev, Len(outputs))
  /\ pc' = "raised"
  /\ err' = "ValueError: input size"
  /\ UNCHANGED <<args, state, prev, outputs, attns, inps, rvs, used_loop, bk, ls, sq, rd>>

\* The widest cell output, and the deepest MultiRNNCell.
MaxCellOutput == 4
MaxLayers == 2

\* bow_mask [batch x num_symbols]: none, the first symbol alone for every
\* example, and a different bag for each example.
BowMasks ==
  { <<>>,
    <<[b \in Batch |-> [k \in Symbols |-> IF k = 0 THEN 1 ELSE 0]]>>,
    <<[b \in Batch |-> [k \in Symbols |-> (b + k) % 2]]>> }

\* attention_decoder calls that pass the checks at its head, with the output
\* layer options maxout_layer and bow_mask.
AttentionOutputLayerArgs ==
  { [DefaultArgs EXCEPT !.entry = "attention_decoder", !.decoder_inputs = d,
                        !.loop_function = lf, !.unknown_width_at = uw,
                        !.initial_state_attention = isa,
                        !.maxout_layer = mx[1], !.cell_output_size = mx[2],
                        !.bow_mask = bm] :
      d \in DecoderInputs \ {<<>>}, lf \in {"None", "argmax_embed"},
      uw \in {0, 2}, isa \in BOOLEAN,
      mx \in {<<FALSE, NumSymbols>>} \cup {<<TRUE, n>> : n \in 1..MaxCellOutput},
      bm \in BowMasks }

\* The cells of the calls: the class names from the cell down to its first
\* innermost cell.
Cells ==
  { <<"LSTMCell">>, <<"GRUCell">>, <<"MultiRNNCell", "LSTMCell">>,
    <<"DropoutWrapper", "LSTMCell">>,
    <<"BOWCell", "LSTMCell">>, <<"BOWCell", "BasicLSTMCell">>,
    <<"BOWCell", "GRUCell">>,
    <<"BOWCell", "DropoutWrapper", "LSTMCell">>,
    <<"BOWCell", "DropoutWrapper", "BasicLSTMCell">>,
    <<"BOWCell", "DropoutWrapper", "GRUCell">>,
    <<"BOWCell", "MultiRNNCell", "LSTMCell">>,
    <<"BOWCell", "MultiRNNCell", "DropoutWrapper", "BasicLSTMCell">>,
    <<"BOWCell", "MultiRNNCell", "GRUCell">>,
    <<"BOWCell", "MultiRNNCell", "DropoutWrapper", "GRUCell">>,
    <<"BOWCell", "DropoutWrapper", "MultiRNNCell", "LSTMCell">>,
    <<"BOWCell", "DropoutWrapper", "DropoutWrapper", "LSTMCell">>,
    <<"BOWCell", "BOWCell", "LSTMCell">> }

\* attention_decoder calls that pass the checks at its head, with an encoder
\* mode, init_const and a cell.
AttentionEncoderArgs ==
  { [DefaultArgs EXCEPT !.entry = "attention_decoder", !.decoder_inputs = d,
                        !.encoder = e, !.init_const = ic, !.cell = c,
                        !.num_layers = nl, !.src_mask = sm] :
      d \in DecoderInputs \ {<<>>}, e \in {"reverse", "bow"}, ic \in BOOLEAN,
      c \in Cells, nl \in 1..MaxLayers, sm \in SrcMasks }

InitAttentionOptions ==
  /\ args \in AttentionOutputLayerArgs \cup AttentionEncoderArgs
  /\ pc = "check"
  /\ state = InitialState
  /\ prev = <<>>
  /\ outputs = <<>>
  /\ attns = <<>>
  /\ inps = <<>>
  /\ rvs = <<>>
  /\ used_loop = <<>>
  /\ err = ""
  /\ bk = IdleBk
  /\ ls = IdleLs
  /\ sq = IdleSq
  /\ rd = IdleRd

NextAttention ==
  \/ AttentionDecoderEnter
  \/ AttentionDecoderStep
  \/ AttentionDecoderInputSizeError
  \/ DecoderReturn

SpecAttentionOptions == InitAttentionOptions /\ [][NextAttention]_vars

Next ==
  \/ RnnDecoderStep
  \/ RnnDecoderSampledStep
  \/ RnnDecoderSampledNoLoop
  \/ DecoderReturn
  \/ AttentionDecoderEnter
  \/ AttentionDecoderStep
  \/ AttentionDecoderInputSizeError

Spec == Init /\ [][Next]_vars

\* Decoder inputs of every length whose rows run through the symbols.
LoopInputs ==
  { [i \in 1..k |-> [b \in Batch |-> (b + s + i) % NumSymbols]] :
      k \in 0..MaxLen, s \in Symbols }

\* Calls of rnn_decoder and of attention_decoder on these inputs, with and
\* without a loop function, scheduled sampling and an input of unknown width.
InitLoops ==
  InitFrom({ a \in RnnDecoderArgs : a.decoder_inputs \in LoopInputs } \cup
           { [DefaultArgs EXCEPT !.entry = "attention_decoder",
                                 !.decoder_inputs = d, !.loop_function = lf,
                                 !.unknown_width_at = uw] :
               d \in LoopInputs, lf \in {"None", "argmax_embed"},
               uw \in 0..MaxLen })

\* The decoder calls run to their end: the Python loop that builds the steps
\* goes on until it returns or raises.
SpecFair == InitLoops /\ [][Next]_vars /\ WF_vars(Next)

\* Calls of the decoders without a loop function and without scheduled
\* sampling, that pass the checks of attention_decoder.
InitTeacherForcing ==
  InitFrom({ [DefaultArgs EXCEPT !.entry = "rnn_decoder",
                                 !.decoder_inputs = d] : d \in DecoderInputs } \cup
           { [DefaultArgs EXCEPT !.entry = "attention_decoder",
                                 !.decoder_inputs = d, !.num_heads = nh,
                                 !.initial_state_attention = isa,
                                 !.src_mask = sm] :
               d \in DecoderInputs, nh \in 1..MaxHeads, isa \in BOOLEAN,
               sm \in SrcMasks \cup {ConstantMask(0)} })

NextTeacherForcing ==
  \/ RnnDecoderStep
  \/ DecoderReturn
  \/ AttentionDecoderEnter
  \/ AttentionDecoderStep

SpecTeacherForcing == InitTeacherForcing /\ [][NextTeacherForcing]_vars

-----------------------------------------------------------------------------
(* sequence_loss_by_example. *)

\* Python's xs[:k] for k >= 0.
Slice(xs, k) == SubSeq(xs, 1, IF k < Len(xs) THEN k ELSE Len(xs))

\* The guard without the comparison of len(weights).
loss_lengths_differ_no_weights(n_logits, n_targets, n_weights) ==
  n_targets # n_logits

\* The guard of the ValueError at the head of sequence_loss_by_example.
loss_lengths_differ(n_logits, n_targets, n_weights) ==
  n_targets # n_logits \/ n_weights # n_logits

\* The number of iterations of zip(logits, targets, weights): the shortest.
zip_len(xs, ys, zs) ==
  CHOOSE n \in {Len(xs), Len(ys), Len(zs)} :
    n <= Len(xs) /\ n <= Len(ys) /\ n <= Len(zs)

\* math_ops.add_n(inputs) requires a list of at least one tensor.
add_n_rejects(xs) == xs = <<>>

\* math_ops.add_n(inputs) on a non-empty list of rows.
add_n(xs) == [b \in Batch |-> SumSeq([k \in 1..Len(xs) |-> xs[k][b]])]

\* crossent of one step: sparse_softmax_cross_entropy_with_logits(logit, target)
\* or softmax_loss_function(logit, target); positive, smaller when the
\* predicted symbol is the target.
crossent(logit, target) ==
  [b \in Batch |-> IF logit[b] = target[b] THEN 1 ELSE 2]

\* crossent * weight.
weighted(ce, weight) == [b \in Batch |-> ce[b] * weight[b]]

\* A quotient num / (den + eps * 1e-12); nan when the divisor is zero.
quotient(num, den, eps) ==
  [num |-> num, den |-> den, eps |-> eps, nan |-> (den = 0 /\ eps = 0)]

\* total_size = add_n(weights); total_size += 1e-12.
total_size_eps == 1

\* The averaging without the 1e-12 added to total_size.
loss_result_no_eps(log_perps, weights, average_across_timesteps) ==
  IF average_across_timesteps
    THEN [b \in Batch |-> quotient(log_perps[b], add_n(weights)[b], 0)]
    ELSE [b \in Batch |-> quotient(log_perps[b], 1, 0)]

\* log_perps after the optional averaging across timesteps.
loss_result(log_perps, weights, average_across_timesteps) ==
  IF average_across_timesteps
    THEN [b \in Batch |-> quotient(log_perps[b], add_n(weights)[b], total_size_eps)]
    ELSE [b \in Batch |-> quotient(log_perps[b], 1, 0)]

LossLogits == SeqUpTo(TokenRows, MaxLossLen)
LossTargets == SeqUpTo(TokenRows, MaxLossLen)
LossWeights == SeqUpTo(WeightRows, MaxLossLen)

IdleDecoder ==
  /\ args = DefaultArgs
  /\ pc = "idle"
  /\ state = InitialState
  /\ prev = <<>>
  /\ outputs = <<>>
  /\ attns = <<>>
  /\ inps = <<>>
  /\ rvs = <<>>
  /\ used_loop = <<>>
  /\ err = ""

InitLoss ==
  /\ IdleDecoder
  /\ bk = IdleBk
  /\ sq = IdleSq
  /\ rd = IdleRd
  /\ \E lg \in LossLogits, tg \in LossTargets, w \in LossWeights, av \in BOOLEAN :
       ls = [IdleLs EXCEPT !.pc = "check", !.logits = lg, !.targets = tg,
                           !.weights = w, !.average_across_timesteps = av]

\* The length check at the head of sequence_loss_by_example.
LossCheck ==
  /\ ls.pc = "check"
  /\ IF loss_lengths_differ(Len(ls.logits), Len(ls.targets), Len(ls.weights))
       THEN ls' = [ls EXCEPT !.pc = "raised", !.err = "ValueError: lengths"]
       ELSE ls' = [ls EXCEPT !.pc = "loop"]
  /\ UNCHANGED <<decvars, bk, sq, rd>>

\* One iteration over zip(logits, targets, weights).
LossStep ==
  /\ ls.pc = "loop"
  /\ Len(ls.log_perp_list) < zip_len(ls.logits, ls.targets, ls.weights)
  /\ LET k == Len(ls.log_perp_list) + 1
         ce == crossent(ls.logits[k], ls.targets[k])
     IN  ls' = [ls EXCEPT !.log_perp_list = Append(@, weighted(ce, ls.weights[k]))]
  /\ UNCHANGED <<decvars, bk, sq, rd>>

\* log_perps = add_n(log_perp_list), the averaging, and the return.
LossReturn ==
  /\ ls.pc = "loop"
  /\ Len(ls.log_perp_list) = zip_len(ls.logits, ls.targets, ls.weights)
  /\ ~add_n_rejects(ls.log_perp_list)
  /\ ls' = [ls EXCEPT !.pc = "done",
                      !.result = loss_result(add_n(ls.log_perp_list), ls.weights,
                                             ls.average_across_timesteps)]
  /\ UNCHANGED <<decvars, bk, sq, rd>>

\* add_n(log_perp_list) on an empty list.
LossAddNError ==
  /\ ls.pc = "loop"
  /\ Len(ls.log_perp_list) = zip_len(ls.logits, ls.targets, ls.weights)
  /\ add_n_rejects(ls.log_perp_list)
  /\ ls' = [ls EXCEPT !.pc = "raised", !.err = "ValueError: add_n"]
  /\ UNCHANGED <<decvars, bk, sq, rd>>

NextLoss ==
  \/ LossCheck
  \/ LossStep
  \/ LossReturn
  \/ LossAddNError

SpecLoss == InitLoss /\ [][NextLoss]_vars

-----------------------------------------------------------------------------
(* model_with_buckets_states. *)

\* A list of n tensors, named by their positions.
ListOf(n) == [k \in 1..n |-> k]

BucketLists == SeqUpTo((1..MaxBucket) \X (1..MaxBucket), MaxBuckets)

\* The three checks at the head of model_with_buckets_states against
\* buckets[-1]; "" when all pass.
buckets_checks(b) ==
  LET last == b.buckets[Len(b.buckets)]
  IN  IF Len(b.encoder_inputs) < last[1] THEN "ValueError: encoder_inputs"
      ELSE IF Len(b.targets) < last[2] THEN "ValueError: targets"
      ELSE IF Len(b.weights) < last[2] THEN "ValueError: weights"
      ELSE ""

\* seq2seq(encoder_inputs[:bucket[0]], decoder_inputs[:bucket[1]], ...)[0]:
\* the caller's model, returning one output per decoder input it receives.
seq2seq_outputs(enc, dec) == [k \in 1..Len(dec) |-> dec[k]]

\* The exception of the loss of one bucket, "" when it returns:
\* sequence_loss / sequence_loss_by_example on (outputs[-1], targets[:bucket[1]],
\* weights[:bucket[1]]).
bucket_loss_error(out, tg, w) ==
  IF loss_lengths_differ(Len(out), Len(tg), Len(w)) THEN "ValueError: lengths"
  ELSE IF add_n_rejects(out) THEN "ValueError: add_n"
  ELSE ""

\* The positional arguments model_with_buckets_states passes to seq2seq.
seq2seq_call_args(enc, dec, bucket, encoder_states, feed_prev_p) ==
  <<Slice(enc, bucket[1]), Slice(dec, bucket[2]), bucket[1], encoder_states,
    feed_prev_p>>

\* Python accepts the call when the function takes that many arguments.
call_accepted(arity, call) == Len(call) = arity

\* A scope that never reuses.
bucket_reuse_never(j) == FALSE

\* reuse of the variable scope of bucket j (0-based): True if j > 0 else None.
bucket_reuse(j) == j > 0

\* The reuse flag inside variable_scope(..., reuse=requested) entered where
\* the flag is `inherited`: reuse = reuse or old.reuse.
scope_reuse(requested, inherited) == requested \/ inherited

RECURSIVE Concat(_)
Concat(ss) == IF ss = <<>> THEN <<>> ELSE Head(ss) \o Concat(Tail(ss))

GetVariable(name, k, reuse) == [name |-> <<name, k>>, reuse |-> reuse]

\* The get_variable calls of rnn_decoder on n inputs: the cell of step i in
\* scope rnn_decoder with reuse = (...) or (i > 0).
rnn_decoder_variables(n, inherited) ==
  [i \in 1..n |-> GetVariable("rnn_decoder/cell", 0, scope_reuse(i > 1, inherited))]

\* The get_variable calls of attention_decoder on n >= 1 inputs, in order;
\* reuse_variables() is called at every step i > 0.
attention_decoder_variables(n, num_heads, initial_state_attention, inherited) ==
  LET heads == 1..num_heads
      before == Concat([a \in heads |->
                  << GetVariable("AttnW", a, inherited),
                     GetVariable("AttnV", a, inherited) >>])
      initial == IF initial_state_attention
                   THEN [a \in heads |-> GetVariable("Attention/Linear", a, inherited)]
                   ELSE <<>>
      step(i) ==
        LET r == scope_reuse(i > 1, inherited)
            ra == scope_reuse(i = 1 /\ initial_state_attention, r)
        IN  << GetVariable("Linear", 0, r), GetVariable("cell", 0, r) >>
            \o [a \in heads |-> GetVariable("Attention/Linear", a, ra)]
            \o << GetVariable("AttnOutputProjection/Linear", 0, r) >>
  IN  before \o initial \o Concat([i \in 1..n |-> step(i)])

\* The exception of the caller's model on n decoder inputs, "" when none.
seq2seq_error(model, n) ==
  IF model.kind = "embedding_attention_seq2seq" /\ n = 0
    THEN "ValueError: no inputs" ELSE ""

\* The get_variable calls of the caller's model on n decoder inputs: the
\* encoder, the embedding of the decoder, then the decoder.
seq2seq_variables(model, n, inherited) ==
  << GetVariable("encoder/cell", 0, inherited),
     GetVariable("embedding", 0, inherited) >>
  \o ( IF model.kind = "embedding_attention_seq2seq"
         THEN (IF n = 0 THEN <<>>
               ELSE attention_decoder_variables(n, model.num_heads,
                                                model.initial_state_attention,
                                                inherited))
         ELSE rnn_decoder_variables(n, inherited) )

\* variable_scope.get_variable over a list of calls: with reuse the variable
\* must exist, without it must not and is created.
RECURSIVE get_variables(_, _)
get_variables(store, calls) ==
  IF calls = <<>> THEN [store |-> store, err |-> ""]
  ELSE LET c == Head(calls)
       IN  IF c.reuse
             THEN IF c.name \in store
                    THEN get_variables(store, Tail(calls))
                    ELSE [store |-> store,
                          err |-> "ValueError: variable does not exist"]
             ELSE IF c.name \in store
                    THEN [store |-> store,
                          err |-> "ValueError: variable already exists"]
                    ELSE get_variables(store \cup {c.name}, Tail(calls))

\* The loss of one bucket: sequence_loss, or sequence_loss_by_example when
\* per_example_loss is set.
bucket_loss(per_example_loss, out, tg, w) ==
  [fn |-> IF per_example_loss THEN "sequence_loss_by_example" ELSE "sequence_loss",
   logits |-> out, targets |-> tg, weights |-> w]

\* add_n(weights[:bucket[1]]) for weights that all hold the row `weight`.
bucket_total_size(w, weight) == add_n([k \in 1..Len(w) |-> weight])

\* The KL entry without the division by total_size.
bucket_kl_not_divided(kl_obj, w, weight) ==
  [reduce_mean |-> [b \in Batch |-> quotient(kl_obj, 1, 0)]]

\* tf.reduce_mean(kl_obj / total_size), total_size = add_n(weights[:bucket[1]])
\* + 1e-12: the batch mean of the row of quotients.
bucket_kl(kl_obj, w, weight) ==
  [reduce_mean |->
     [b \in Batch |->
        quotient(kl_obj, bucket_total_size(w, weight)[b], total_size_eps)]]

\* The callers' models: plain and attention seq2seq functions that take the
\* five arguments passed, with or without a KL term in what they return.
BucketModels ==
  { [kind |-> k, arity |-> 5, num_heads |-> MaxHeads,
     initial_state_attention |-> isa, kl_obj |-> kl] :
      k \in {"embedding_rnn_seq2seq", "embedding_attention_seq2seq"},
      isa \in BOOLEAN, kl \in {<<>>, <<3>>} }

\* The model function of the docstring: lambda x, y: basic_rnn_seq2seq(x, y, cell).
TwoArgumentModel ==
  [kind |-> "embedding_rnn_seq2seq", arity |-> 2, num_heads |-> 1,
   initial_state_attention |-> FALSE, kl_obj |-> <<>>]

InitBuckets ==
  /\ IdleDecoder
  /\ ls = IdleLs
  /\ sq = IdleSq
  /\ rd = IdleRd
  /\ \E ne \in 0..MaxInputs, nd \in 0..MaxInputs, nt \in 0..MaxInputs,
        nw \in 0..MaxInputs,
        bs \in BucketLists :
       bk = [IdleBk EXCEPT !.pc = "check", !.encoder_inputs = ListOf(ne),
                           !.decoder_inputs = ListOf(nd), !.targets = ListOf(nt),
                           !.weights = ListOf(nw), !.buckets = bs]

\* The checks before the loop; buckets[-1] of an empty list is an IndexError.
BucketsCheck ==
  /\ bk.pc = "check"
  /\ IF bk.buckets = <<>>
       THEN bk' = [bk EXCEPT !.pc = "raised", !.err = "IndexError"]
       ELSE IF buckets_checks(bk) # ""
         THEN bk' = [bk EXCEPT !.pc = "raised", !.err = buckets_checks(bk)]
         ELSE bk' = [bk EXCEPT !.pc = "loop"]
  /\ UNCHANGED <<decvars, ls, sq, rd>>

\* One iteration of the loop over the buckets: the call of seq2seq inside the
\* variable scope of the bucket, then the loss and the KL entry.
BucketsBuild ==
  /\ bk.pc = "loop"
  /\ Len(bk.losses) < Len(bk.buckets)
  /\ LET j == Len(bk.losses)
         bucket == bk.buckets[j + 1]
         call == seq2seq_call_args(bk.encoder_inputs, bk.decoder_inputs, bucket,
                                   <<>>, NoneP)
         dec == call[2]
         built == get_variables(bk.store,
                                seq2seq_variables(bk.seq2seq, Len(dec),
                                                  bucket_reuse(j)))
         out == seq2seq_outputs(call[1], dec)
         tg == Slice(bk.targets, bucket[2])
         w == Slice(bk.weights, bucket[2])
         e == bucket_loss_error(out, tg, w)
         called == [bk EXCEPT !.calls = Append(@, call)]
     IN  IF ~call_accepted(bk.seq2seq.arity, call)
           THEN bk' = [called EXCEPT !.pc = "raised", !.err = "TypeError"]
         ELSE IF built.err # ""
           THEN bk' = [called EXCEPT !.pc = "raised", !.err = built.err,
                                     !.store = built.store]
         ELSE IF seq2seq_error(bk.seq2seq, Len(dec)) # ""
           THEN bk' = [called EXCEPT !.pc = "raised",
                                     !.err = seq2seq_error(bk.seq2seq, Len(dec)),
                                     !.store = built.store]
         ELSE IF e # ""
           THEN bk' = [called EXCEPT !.pc = "raised", !.err = e,
                                     !.store = built.store,
                                     !.stores = Append(@, built.store),
                                     !.outputs = Append(@, out)]
           ELSE bk' = [called EXCEPT
                         !.store = built.store,
                         !.stores = Append(@, built.store),
                         !.outputs = Append(@, out),
                         !.losses = Append(@,
                            [loss |-> bucket_loss(bk.per_example_loss, out, tg, w),
                             kl |-> IF bk.seq2seq.kl_obj # <<>>
                                      THEN <<bucket_kl(bk.seq2seq.kl_obj[1], w,
                                                       bk.weight)>>
                                      ELSE <<>>])]
  /\ UNCHANGED <<decvars, ls, sq, rd>>

\* return outputs, losses, states
BucketsReturn ==
  /\ bk.pc = "loop"
  /\ Len(bk.losses) = Len(bk.buckets)
  /\ bk' = [bk EXCEPT !.pc = "done"]
  /\ UNCHANGED <<decvars, ls, sq, rd>>

NextBuckets ==
  \/ BucketsCheck
  \/ BucketsBuild
  \/ BucketsReturn

SpecBuckets == InitBuckets /\ [][NextBuckets]_vars

\* model_with_buckets_states on lists of one common length, over the callers'
\* models and the weights.
InitBucketModels ==
  /\ IdleDecoder
  /\ ls = IdleLs
  /\ sq = IdleSq
  /\ rd = IdleRd
  /\ \E n \in 0..MaxInputs, bs \in BucketLists,
        m \in BucketModels \cup {TwoArgumentModel}, wr \in WeightRows,
        pe \in BOOLEAN :
       bk = [IdleBk EXCEPT !.pc = "check", !.encoder_inputs = ListOf(n),
                           !.decoder_inputs = ListOf(n), !.targets = ListOf(n),
                           !.weights = ListOf(n), !.buckets = bs,
                           !.seq2seq = m, !.weight = wr,
                           !.per_example_loss = pe]

SpecBucketModels == InitBucketModels /\ [][NextBuckets]_vars

-----------------------------------------------------------------------------
(* The seq2seq builders that take an encoder mode:                          *)
(* embedding_attention_seq2seq, embedding_rnn_autoencoder_seq2seq and       *)
(* embedding_rnn_vae_seq2seq.  sq.built lists the encoder, latent and       *)
(* decoder computations in the order they are built, sq.bound the local     *)
(* names the encoder branches have bound.  Tensor values are integers in    *)
(* thousandths.  The calls are made with the cells they need (dec_cell).    *)

LatentUnits == 1..LatentSize

\* What the branches on `encoder` at the head of a builder build and bind.
encoder_dispatch(fn, encoder) ==
  IF fn = "embedding_attention_seq2seq" THEN
    IF encoder = "bidirectional"
      THEN [built |-> <<"bidirectional_rnn">>,
            bound |-> {"encoder_outputs", "encoder_state", "encoder_state_bw"}]
    ELSE IF encoder = "reverse"
      THEN [built |-> <<"rnn">>, bound |-> {"encoder_outputs", "encoder_state"}]
    ELSE IF encoder = "bow"
      THEN [built |-> <<"embed">>, bound |-> {"encoder_outputs", "encoder_state"}]
    ELSE [built |-> <<>>, bound |-> {}]
  ELSE IF fn = "embedding_rnn_autoencoder_seq2seq" THEN
    IF encoder = "bidirectional"
      THEN [built |-> <<"bidirectional_rnn">>,
            bound |-> {"encoder_state", "encoder_state_bw", "initial_state"}]
    ELSE IF encoder = "reverse"
      THEN [built |-> <<"rnn">>, bound |-> {"encoder_state", "initial_state"}]
    ELSE [built |-> <<>>, bound |-> {}]
  ELSE
    IF encoder = "bidirectional"
      THEN [built |-> <<"bidirectional_rnn">>,
            bound |-> {"encoder_state", "encoder_state_bw", "enc_cell",
                       "encoder_out_state"}]
    ELSE IF encoder = "reverse"
      THEN [built |-> <<"rnn">>, bound |-> {"enc_cell", "encoder_out_state"}]
    ELSE [built |-> <<>>, bound |-> {}]

\* The decoders a builder builds: one when feed_previous is a Python bool, the
\* two branches of cond when it is a Tensor.
decoders_built(feed_previous, name) ==
  IF feed_previous = "Tensor" THEN <<name, name>> ELSE <<name>>

\* exp(k / 4) for the multiples of 0.25 from -3.5 to 3.5, rounded to the
\* nearest thousandth, and sqrt(exp(k / 4)) likewise.
ExpTable ==
  <<30, 39, 50, 64, 82, 105, 135, 174, 223, 287, 368, 472, 607, 779, 1000,
    1284, 1649, 2117, 2718, 3490, 4482, 5755, 7389, 9488, 12182, 15643,
    20086, 25790, 33115>>

SqrtExpTable ==
  <<174, 197, 223, 253, 287, 325, 368, 417, 472, 535, 607, 687, 779, 882,
    1000, 1133, 1284, 1455, 1649, 1868, 2117, 2399, 2718, 3080, 3490, 3955,
    4482, 5078, 5755>>

\* The index of exp(0) in the tables is QuarterSteps + 1.
QuarterSteps == (Len(ExpTable) - 1) \div 2

\* tf.exp(x) and tf.sqrt(tf.exp(x)) for x in thousandths.
exp1000(x) == ExpTable[(x \div 250) + QuarterSteps + 1]

sqrt_exp1000(x) == SqrtExpTable[(x \div 250) + QuarterSteps + 1]

\* The scale the trained weights (z_mean_w, z_mean_b, z_logvar_w, z_logvar_b)
\* give the projections: g quarters, 4 for the unit scale.
latent_gain(m, g) ==
  [b \in Batch |-> [u \in LatentUnits |-> (g * m[b][u]) \div 4]]

\* z_mean = transfer_func(encoder_out_state * z_mean_w + z_mean_b).
vae_z_mean(enc) ==
  [b \in Batch |-> [u \in LatentUnits |-> 1000 * (((enc[b] + u) % 3) - 1)]]

\* z_log_var = transfer_func(encoder_out_state * z_logvar_w + z_logvar_b).
vae_z_log_var(enc) ==
  [b \in Batch |-> [u \in LatentUnits |-> 1000 * (((enc[b] * u + b) % 3) - 1)]]

\* z = z_mean + sqrt(exp(z_log_var)) * eps.
vae_z_sample(z_mean, z_log_var, eps) ==
  [b \in Batch |->
     [u \in LatentUnits |->
        z_mean[b][u] + sqrt_exp1000(z_log_var[b][u]) * eps[b][u]]]

\* kl_loss = -0.5 * (1.0 + z_log_var - square(z_mean) - exp(z_log_var)).
\* One element of kl_loss with the factor 0.5 in place of -0.5.
kl_element_positive_half(mean, log_var) ==
  (1000 + log_var - ((mean * mean) \div 1000) - exp1000(log_var)) \div 2

\* One element of kl_loss, in thousandths.
kl_element(mean, log_var) ==
  (0 - (1000 + log_var - ((mean * mean) \div 1000) - exp1000(log_var))) \div 2

vae_kl_loss(z_mean, z_log_var) ==
  [b \in Batch |->
     [u \in LatentUnits |-> kl_element(z_mean[b][u], z_log_var[b][u])]]

\* The common denominator of the means below: a mean is held as the integer
\* MeanDen times its value.
MeanDen == BatchSize * LatentSize

\* tf.reduce_mean(kl_loss, [0]): one mean per latent unit, over the batch.
reduce_mean_0(m) ==
  [u \in LatentUnits |-> LatentSize * SumSeq([b \in Batch |-> m[b][u]])]

\* tf.maximum(x, c) and tf.reduce_sum on a vector of means.
maximum(x, c) ==
  [k \in DOMAIN x |-> IF x[k] < MeanDen * c THEN MeanDen * c ELSE x[k]]

reduce_sum(x) == SumSeq(x)

\* tf.multiply(anneal_scale, kl_obj) for anneal_scale = k / AnnealDen; the
\* objective is held as the integer MeanDen * AnnealDen times its value.
anneal(anneal_scale, x) ==
  IF anneal_scale # NoneP THEN anneal_scale * x ELSE AnnealDen * x

\* kl_obj without the floor at kl_min.
vae_kl_obj_no_floor(kl_loss, kl_min, anneal_scale) ==
  anneal(anneal_scale, reduce_sum(reduce_mean_0(kl_loss)))

\* kl_obj of embedding_rnn_vae_seq2seq.
vae_kl_obj(kl_loss, kl_min, anneal_scale) ==
  LET kl_step_av == reduce_mean_0(kl_loss)
  IN  anneal(anneal_scale,
             IF kl_min > 0 THEN reduce_sum(maximum(kl_step_av, kl_min))
                           ELSE reduce_sum(kl_step_av))

\* The selection of z that tests sample_mean alone.
vae_select_z_sample_mean_alone(z_sample, z_mean, latent_state, sample_mean, feed_previous) ==
  IF latent_state # <<>> THEN latent_state[1]
  ELSE IF sample_mean THEN z_mean
  ELSE z_sample

\* The selection of z that never takes the supplied latent_state.
vae_select_z_no_latent_state(z_sample, z_mean, latent_state, sample_mean, feed_previous) ==
  IF sample_mean /\ feed_previous THEN z_mean ELSE z_sample

\* The z that embedding_rnn_vae_seq2seq decodes from and returns; feed_previous
\* is the truth value Python gives the argument.
vae_select_z(z_sample, z_mean, latent_state, sample_mean, feed_previous) ==
  IF latent_state # <<>> THEN latent_state[1]
  ELSE IF sample_mean /\ feed_previous THEN z_mean
  ELSE z_sample

\* initial_state = transfer_func(z * dec_in_w + dec_in_b).
vae_initial_state(z) ==
  [b \in Batch |-> (SumSeq([u \in LatentUnits |-> z[b][u]]) \div 100) % StateMod]

\* The truth values Python can give feed_previous in `sample_mean and
\* feed_previous`: a Tensor is refused as a bool by the library versions that
\* define Tensor.__bool__ and is a true object in the others.
feed_previous_truth(sample_mean, feed_previous) ==
  IF feed_previous = "Tensor"
    THEN (IF sample_mean THEN {"TypeError", "True"} ELSE {"False"})
    ELSE {feed_previous}

EncoderModes == {"bidirectional", "reverse", "bow", "None"}

FeedPrevious == {"False", "True", "Tensor"}

\* The final encoder states the calls are run on.
EncoderValues == { [b \in Batch |-> (b + s) % 3] : s \in 0..1 }

\* The latent_state tensors a caller supplies, and the eps the normal draw
\* returns (one value for the whole tensor).
LatentStates ==
  { <<>>, <<[b \in Batch |-> [u \in LatentUnits |-> 0]]>>,
    <<[b \in Batch |-> [u \in LatentUnits |-> 250 * (b + u)]]>> }

EpsValues == { [b \in Batch |-> [u \in LatentUnits |-> e]] : e \in {-1, 1} }

KlMins == {0, 550}

AttentionSeq2seqArgs ==
  { [IdleSq EXCEPT !.fn = "embedding_attention_seq2seq", !.pc = "encoder",
                   !.encoder = e, !.init_backward = ib, !.feed_previous = fp] :
      e \in EncoderModes, ib \in BOOLEAN, fp \in FeedPrevious }

AutoencoderSeq2seqArgs ==
  { [IdleSq EXCEPT !.fn = "embedding_rnn_autoencoder_seq2seq", !.pc = "encoder",
                   !.encoder = e, !.init_backward = ib, !.feed_previous = fp,
                   !.hidden_state = hs, !.feed_prev_p = p] :
      e \in EncoderModes, ib \in BOOLEAN, fp \in FeedPrevious,
      hs \in {<<>>, <<InitialState>>}, p \in {NoneP, 1} }

VaeSeq2seqArgs ==
  { [IdleSq EXCEPT !.fn = "embedding_rnn_vae_seq2seq", !.pc = "encoder",
                   !.encoder = e, !.feed_previous = fp, !.latent_state = lt,
                   !.sample_mean = sm, !.kl_min = km, !.anneal_scale = an,
                   !.concat_encoded = ce, !.tuple_state = ts,
                   !.feed_prev_p = p, !.encoder_value = <<ev>>, !.eps = <<ep>>] :
      e \in EncoderModes, fp \in FeedPrevious, lt \in LatentStates,
      sm \in BOOLEAN, km \in KlMins, an \in {NoneP} \cup (0..AnnealDen),
      ce \in BOOLEAN, ts \in BOOLEAN, p \in {NoneP, 1}, ev \in EncoderValues,
      ep \in EpsValues }

InitBuilders ==
  /\ IdleDecoder
  /\ bk = IdleBk
  /\ ls = IdleLs
  /\ sq \in AttentionSeq2seqArgs \cup AutoencoderSeq2seqArgs \cup VaeSeq2seqArgs
  /\ rd = IdleRd

BuilderRaise(e) == [sq EXCEPT !.pc = "raised", !.err = e]

\* The branches on `encoder` at the head of the three builders.
BuilderEncoder ==
  /\ sq.pc = "encoder"
  /\ LET d == encoder_dispatch(sq.fn, sq.encoder)
     IN  sq' = [sq EXCEPT !.pc = "body", !.built = d.built, !.bound = d.bound]
  /\ UNCHANGED <<decvars, bk, ls, rd>>

\* embedding_attention_seq2seq after the encoder: attention_states from
\* encoder_outputs, initial_state, then the attention decoder(s).
AttentionSeq2seqBody ==
  /\ sq.pc = "body" /\ sq.fn = "embedding_attention_seq2seq"
  /\ IF "encoder_outputs" \notin sq.bound
       THEN sq' = BuilderRaise("UnboundLocalError")
       ELSE sq' = [sq EXCEPT
                     !.pc = "done",
                     !.built = @ \o <<"attention_states">>
                                 \o decoders_built(sq.feed_previous,
                                                   "embedding_attention_decoder"),
                     !.ret = <<"outputs", "state">>]
  /\ UNCHANGED <<decvars, bk, ls, rd>>

\* embedding_rnn_autoencoder_seq2seq after the encoder: the decoder runs from
\* hidden_state when one is given and from initial_state otherwise; the
\* builder returns initial_state.
AutoencoderSeq2seqBody ==
  /\ sq.pc = "body" /\ sq.fn = "embedding_rnn_autoencoder_seq2seq"
  /\ IF "initial_state" \in sq.bound
       THEN sq' = [sq EXCEPT
                     !.pc = "done",
                     !.built = @ \o decoders_built(sq.feed_previous,
                                                   "embedding_rnn_decoder"),
                     !.decoder_state = IF sq.hidden_state # <<>>
                                         THEN sq.hidden_state
                                         ELSE <<"initial_state">>,
                     !.decoder_p = IF sq.hidden_state # <<>> THEN NoneP
                                                            ELSE sq.feed_prev_p,
                     !.ret = <<"outputs", "initial_state">>]
       ELSE IF sq.hidden_state # <<>>
         THEN sq' = [BuilderRaise("UnboundLocalError") EXCEPT
                       !.built = @ \o <<"embedding_rnn_decoder">>,
                       !.decoder_state = sq.hidden_state]
         ELSE sq' = BuilderRaise("UnboundLocalError")
  /\ UNCHANGED <<decvars, bk, ls, rd>>

\* embedding_rnn_vae_seq2seq, the latent state: z_mean, z_log_var, the sample,
\* the KL objective and the selection of z.
VaeLatent ==
  /\ sq.pc = "body" /\ sq.fn = "embedding_rnn_vae_seq2seq"
  /\ IF "encoder_out_state" \notin sq.bound
       THEN sq' = BuilderRaise("UnboundLocalError")
       ELSE \E truth \in feed_previous_truth(sq.sample_mean, sq.feed_previous) :
              LET z_mean == latent_gain(vae_z_mean(sq.encoder_value[1]),
                                        sq.z_gain.mean)
                  z_log_var == latent_gain(vae_z_log_var(sq.encoder_value[1]),
                                           sq.z_gain.log_var)
                  z == vae_z_sample(z_mean, z_log_var, sq.eps[1])
                  kl_loss == vae_kl_loss(z_mean, z_log_var)
                  kl_obj == vae_kl_obj(kl_loss, sq.kl_min, sq.anneal_scale)
              IN  IF truth = "TypeError"
                    THEN sq' = [BuilderRaise("TypeError") EXCEPT
                                  !.built = @ \o <<"latent">>]
                    ELSE sq' = [sq EXCEPT
                                  !.pc = "decoder",
                                  !.built = @ \o <<"latent">>,
                                  !.kl_obj = <<kl_obj>>,
                                  !.z = <<vae_select_z(z, z_mean, sq.latent_state,
                                                       sq.sample_mean,
                                                       truth = "True")>>,
                                  !.feed_prev_p = IF sq.latent_state # <<>>
                                                    THEN NoneP ELSE @]
  /\ UNCHANGED <<decvars, bk, ls, rd>>

\* embedding_rnn_vae_seq2seq, the decoder: initial_state from z, the decoder(s)
\* and the return.  With concat_encoded and a cell state that is no tuple,
\* initial_state is read before it is bound.
VaeDecoder ==
  /\ sq.pc = "decoder" /\ sq.fn = "embedding_rnn_vae_seq2seq"
  /\ IF sq.concat_encoded /\ ~sq.tuple_state
       THEN sq' = BuilderRaise("UnboundLocalError")
       ELSE LET kl_loss ==
                  vae_kl_loss(latent_gain(vae_z_mean(sq.encoder_value[1]),
                                          sq.z_gain.mean),
                              latent_gain(vae_z_log_var(sq.encoder_value[1]),
                                          sq.z_gain.log_var))
            IN  sq' = [sq EXCEPT
                  !.pc = "done",
                  !.built = @ \o decoders_built(sq.feed_previous,
                                                "embedding_rnn_decoder"),
                  !.decoder_state = IF sq.concat_encoded
                                      THEN <<"concat">>
                                      ELSE <<vae_initial_state(sq.z[1])>>,
                  !.decoder_p = sq.feed_prev_p,
                  !.ret = IF sq.feed_previous = "Tensor"
                            THEN [z |-> sq.z[1], kl_obj |-> <<>>,
                                  kl_loss |-> <<kl_loss>>]
                            ELSE [z |-> sq.z[1], kl_obj |-> sq.kl_obj,
                                  kl_loss |-> <<>>]]
  /\ UNCHANGED <<decvars, bk, ls, rd>>

\* The largest scale of the projections, in quarters.
MaxGain == 12

\* Calls of embedding_rnn_vae_seq2seq whose trained projections give z_mean
\* and z_log_var every multiple of 0.25 up to MaxGain / 4 in absolute value.
VaeGainArgs ==
  { [IdleSq EXCEPT !.fn = "embedding_rnn_vae_seq2seq", !.pc = "encoder",
                   !.encoder = "reverse", !.feed_previous = fp, !.kl_min = km,
                   !.encoder_value = <<ev>>, !.eps = <<ep>>,
                   !.z_gain = [mean |-> gm, log_var |-> gv]] :
      fp \in FeedPrevious, km \in KlMins, ev \in EncoderValues,
      ep \in EpsValues, gm \in 0..MaxGain, gv \in 0..MaxGain }

InitVaeGains ==
  /\ IdleDecoder
  /\ bk = IdleBk
  /\ ls = IdleLs
  /\ sq \in VaeGainArgs
  /\ rd = IdleRd

NextVae ==
  \/ BuilderEncoder
  \/ VaeLatent
  \/ VaeDecoder

SpecVaeGains == InitVaeGains /\ [][NextVae]_vars

NextBuilders ==
  \/ BuilderEncoder
  \/ AttentionSeq2seqBody
  \/ AutoencoderSeq2seqBody
  \/ VaeLatent
  \/ VaeDecoder

SpecBuilders == InitBuilders /\ [][NextBuilders]_vars

-----------------------------------------------------------------------------
(* ptb_iterator of tensorflow/models/rnn/ptb/reader.py, a generator: the     *)
(* call builds the generator object, the first next() runs the body up to    *)
(* the first yield, the raise or the end of the loop, every later next()     *)
(* continues the loop.  A matrix is a sequence of rows.                      *)

MaxData == 8
MaxReaderBatch == 3
MaxSteps == 3
MaxStart == 1

\* Python's xs[a:b] for 0 <= a, 0 <= b.
PySlice(xs, a, b) == SubSeq(xs, a + 1, IF b < Len(xs) THEN b ELSE Len(xs))

\* batch_len = data_len // batch_size
batch_len(raw_data, batch_size) == Len(raw_data) \div batch_size

\* data[i] = raw_data[batch_len * i:batch_len * (i + 1)] for i in range(batch_size)
reader_data(raw_data, batch_size) ==
  LET bl == batch_len(raw_data, batch_size)
  IN  [r \in 1..batch_size |-> PySlice(raw_data, bl * (r - 1), bl * r)]

\* epoch_size = (batch_len - 1) // num_steps, Python's floor division.
epoch_size(bl, num_steps) == (bl - 1) \div num_steps

\* x = data[:, i*num_steps:(i+1)*num_steps]
reader_x(data, i, num_steps) ==
  [r \in 1..Len(data) |-> PySlice(data[r], i * num_steps, (i + 1) * num_steps)]

\* y = data[:, i*num_steps+1:(i+1)*num_steps+1]
reader_y(data, i, num_steps) ==
  [r \in 1..Len(data) |->
     PySlice(data[r], i * num_steps + 1, (i + 1) * num_steps + 1)]

\* The loop `for i in range(start_idx, epoch_size)` at index i: the next yield,
\* or the end of the generator.
reader_loop(r, data, es, i) ==
  IF i < es
    THEN [r EXCEPT !.pc = "yielded", !.data = data, !.epoch_size = es, !.i = i,
                   !.yielded = Append(@, [x |-> reader_x(data, i, r.num_steps),
                                          y |-> reader_y(data, i, r.num_steps)])]
    ELSE [r EXCEPT !.pc = "exhausted", !.data = data, !.epoch_size = es, !.i = i]

\* The raw data the calls are run on: n distinct word ids.
ReaderArgs ==
  { [IdleRd EXCEPT !.pc = "created", !.raw_data = [k \in 1..n |-> k],
                   !.batch_size = bs, !.num_steps = ns, !.start_idx = si] :
      n \in 0..MaxData, bs \in 1..MaxReaderBatch, ns \in 1..MaxSteps,
      si \in 0..MaxStart }

InitReader ==
  /\ IdleDecoder
  /\ bk = IdleBk
  /\ ls = IdleLs
  /\ sq = IdleSq
  /\ rd \in ReaderArgs

\* The first next(): the body up to the first yield.
ReaderFirstNext ==
  /\ rd.pc = "created"
  /\ LET data == reader_data(rd.raw_data, rd.batch_size)
         es == epoch_size(batch_len(rd.raw_data, rd.batch_size), rd.num_steps)
     IN  IF es = 0
           THEN rd' = [rd EXCEPT !.pc = "raised", !.err = "ValueError",
                                 !.data = data, !.epoch_size = es]
           ELSE rd' = reader_loop(rd, data, es, rd.start_idx)
  /\ UNCHANGED <<decvars, bk, ls, sq>>

\* A later next(): the loop continues after the yield.
ReaderNext ==
  /\ rd.pc = "yielded"
  /\ rd' = reader_loop(rd, rd.data, rd.epoch_size, rd.i + 1)
  /\ UNCHANGED <<decvars, bk, ls, sq>>

NextReader ==
  \/ ReaderFirstNext
  \/ ReaderNext

SpecReader == InitReader /\ [][NextReader]_vars

-----------------------------------------------------------------------------
(* Properties of the decoder loops. *)

\* The outputs of n steps of a decoder that consumes decoder_inputs[0] at step
\* 0 and, at every later step, the embedding of argmax of the previous output.
GreedyOutputs(a, n) ==
  LET first == emb_inp(a)[1]
      run[k \in 1..n] ==
        IF k = 1
          THEN [st |-> cell_state(first, InitialState),
                out |-> cell_output(first, InitialState)]
          ELSE LET inp == loop_function(a, run[k - 1].out)
               IN  [st |-> cell_state(inp, run[k - 1].st),
                    out |-> cell_output(inp, run[k - 1].st)]
  IN  [k \in 1..n |-> run[k].out]

\* C1: under scheduled sampling through embedding_rnn_decoder, at every step
\* i > 0 the input is the embedding of argmax of the previous output when the
\* draw r of the step is below feed_prev_p, and decoder_inputs[i] otherwise.
C1_ScheduledSampling ==
  (args.entry = "embedding_rnn_decoder" /\ args.feed_prev_p # NoneP) =>
    \A k \in 2..Len(inps) :
       IF rvs[k] < args.feed_prev_p
         THEN inps[k] = loop_function(args, outputs[k - 1])
         ELSE inps[k] = emb_inp(args)[k]

\* C2: with feed_prev_p = 1 the input of every step i > 0 is the embedding of
\* argmax of the output of step i-1 whatever the draws, and the outputs are
\* those of the greedy decoder started on decoder_inputs[0] alone.
C2_FeedPrevProbabilityOne ==
  (IsRnnEntry /\ args.loop_function # "None" /\ args.feed_prev_p = RScale) =>
    /\ \A k \in 2..Len(inps) : inps[k] = loop_function(args, outputs[k - 1])
    /\ outputs = GreedyOutputs(args, Len(outputs))

\* C3: with feed_prev_p = 0 every step consumes decoder_inputs[i] and
\* loop_function is never used, whatever the draws.
C3_FeedPrevProbabilityZero ==
  (IsRnnEntry /\ args.loop_function # "None" /\ args.feed_prev_p = 0) =>
    \A k \in 1..Len(inps) : inps[k] = emb_inp(args)[k] /\ ~used_loop[k]

\* C4: in rnn_decoder and attention_decoder the input consumed at step 0 is
\* decoder_inputs[0], with or without loop_function, with or without
\* feed_prev_p, whatever the draw of step 0.
C4_StepZeroIsGo ==
  Len(inps) >= 1 => (inps[1] = emb_inp(args)[1] /\ ~used_loop[1])

\* Step 0 was built under scheduled sampling and its draw selected the branch
\* of cond that calls inner_loop with feed_prev=True.
C4_Witness ==
  /\ Len(inps) >= 1
  /\ args.loop_function # "None"
  /\ args.feed_prev_p # NoneP
  /\ ~less_rv(args, rvs[1])
  /\ args.decoder_inputs[1][1] # 0

\* C5: embedding_rnn_decoder with feed_previous=True feeds every step i > 0
\* the embedding of argmax of the (projected) output of step i-1, whatever
\* the other arguments.
C5_FeedPreviousIsGreedy ==
  (args.entry = "embedding_rnn_decoder" /\ args.feed_previous) =>
    \A k \in 2..Len(inps) : inps[k] = loop_function(args, outputs[k - 1])

\* C10 as stated: each failure condition of attention_decoder is raised
\* before any decoder step has been built.
C10_AllChecksBeforeLoop ==
  (args.entry = "attention_decoder" /\ pc = "raised") => outputs = <<>>

EntryErrors ==
  {"ValueError: no inputs", "ValueError: num_heads",
   "ValueError: attention_states shape"}

\* C10 amended: empty decoder_inputs, num_heads < 1 and an unknown attention
\* feature dimension are raised before the loop is entered, so that no step is
\* built under them; the input-size error is raised inside the loop, at the
\* step whose selected input has no known width and before that step is built.
C10_ChecksBeforeLoopExceptInputSize ==
  args.entry = "attention_decoder" =>
    /\ ( /\ pc # "check"
         /\ \/ args.decoder_inputs = <<>>
            \/ args.num_heads < 1
            \/ ~args.attn_size_known )
       => (pc = "raised" /\ err \in EntryErrors /\ outputs = <<>>)
    /\ err \in EntryErrors => outputs = <<>>
    /\ err = "ValueError: input size" =>
         /\ pc = "raised"
         /\ Len(outputs) < Len(args.decoder_inputs)
         /\ ~input_size_known(args, prev, Len(outputs))
    /\ pc = "raised" => err \in EntryErrors \cup {"ValueError: input size"}

\* The input-size error raised after a decoder step has been built.
C10_Witness ==
  /\ args.entry = "attention_decoder"
  /\ err = "ValueError: input size"
  /\ Len(outputs) >= 1

\* rnn_decoder runs under scheduled sampling with a loop function.
ScheduledSampling ==
  IsRnnEntry /\ args.feed_prev_p # NoneP /\ args.loop_function # "None"

\* C26: under scheduled sampling in rnn_decoder one draw is made per step and
\* gates the whole batch: the input of a step is decoder_inputs[i] for every
\* example or loop_function(previous output) for every example, the choice is
\* that of the step's own draw, and the steps draw separately.
C26_OneDrawGatesBatch ==
  ScheduledSampling =>
    /\ Len(rvs) = Len(inps)
    /\ \A k \in 1..Len(inps) :
         /\ rvs[k] \in 0..(RScale - 1)
         /\ IF used_loop[k]
              THEN k > 1 /\ inps[k] = loop_function(args, outputs[k - 1])
              ELSE inps[k] = emb_inp(args)[k]
    /\ \A j \in 2..Len(inps), k \in 2..Len(inps) :
         rvs[j] = rvs[k] => used_loop[j] = used_loop[k]

\* Two steps after step 0 drew differently and took different policies, on
\* inputs where the two policies differ for every example of the batch.
C26_Witness ==
  /\ ScheduledSampling
  /\ Len(inps) >= 3
  /\ rvs[2] # rvs[3]
  /\ used_loop[2] # used_loop[3]
  /\ \A k \in 2..3, b \in Batch :
        emb_inp(args)[k][b] # loop_function(args, outputs[k - 1])[b]

-----------------------------------------------------------------------------
(* Properties of the loop and the output layer of attention_decoder. *)

\* An iteration of attention_decoder's loop is about to be built on an input
\* of known size.
AttentionStepPending ==
  /\ args.entry = "attention_decoder" /\ pc = "loop"
  /\ Len(outputs) < Len(args.decoder_inputs)
  /\ input_size_known(args, prev, Len(outputs))

\* The input the pending iteration selects.
PendingInput == attention_step_input(args, prev, Len(outputs))

Max2(x, y) == IF x >= y THEN x ELSE y

\* maxout[j] = max(merge[2j], merge[2j+1]) for the cell.output_size // 2 pairs
\* of adjacent slots (slots counted from 0 in the claim, from 1 here).
PairwiseMax(merged) ==
  [b \in Batch |->
     [j \in 1..(args.cell_output_size \div 2) |->
        Max2(merged[b][2 * j - 1], merged[b][2 * j])]]

\* The output of the pending iteration when the maxout layer reduces the
\* biased merge output by PairwiseMax and the two projections map the halved
\* vector to the output size.
PairwiseMaxOutput ==
  LET x == linear_input(PendingInput, attns)
      new_attns == attention(args, cell_state(x, state))
      merged == merge_output_plus_b(args, cell_output(x, state), PendingInput,
                                    new_attns)
  IN  bow_masked(maxout_projections(PairwiseMax(merged)), args.bow_mask)

\* C27: with maxout_layer set, every iteration reduces the biased merge output
\* of width cell.output_size to width cell.output_size // 2 by a pairwise max
\* over adjacent slots, for every cell.output_size, even or odd, and the two
\* chained projections map the halved vector to the output.
C27_MaxoutPairwiseMax ==
  [][(AttentionStepPending /\ args.maxout_layer)
       => outputs' = Append(outputs, PairwiseMaxOutput)]_vars

\* C25: within every step of attention_decoder the selected input is merged
\* with the contexts of the previous step (zeros, or the attention of the
\* initial state under initial_state_attention, at step 0), then the cell is
\* advanced, then attention is recomputed with the new state as query, then
\* the output is computed from the cell output and the new contexts; the
\* contexts merged at step i+1 are those computed at step i.
C25_StepOrder ==
  /\ []((args.entry = "attention_decoder" /\ pc = "loop" /\ outputs = <<>>)
          => attns = IF args.initial_state_attention
                       THEN attention(args, InitialState)
                       ELSE [a \in 1..args.num_heads |-> [b \in Batch |-> 0]])
  /\ [][AttentionStepPending =>
          LET x == linear_input(PendingInput, attns)
          IN  /\ state' = cell_state(x, state)
              /\ attns' = attention(args, state')
              /\ outputs' = Append(outputs,
                                   linear_output(cell_output(x, state), attns'))
       ]_vars

\* Two steps were built from the attention of the initial state, with two
\* heads, and the contexts changed from one step to the next.
C25_Witness ==
  /\ args.entry = "attention_decoder"
  /\ args.initial_state_attention
  /\ args.num_heads = 2
  /\ Len(outputs) >= 2
  /\ attns = attention(args, state)
  /\ attns # attention(args, InitialState)

\* The logits of the pending iteration before the bow mask is applied.
PendingStep == attention_step(args, state, attns, PendingInput)

\* C28: when a bow_mask is supplied to attention_decoder, every output it
\* returns, and every output it hands to the loop function as the previous
\* output, is the elementwise product of the logits and the mask, so that an
\* entry whose mask value is 0 has logit 0 at every step.
C28_BowMaskedOutputs ==
  /\ []((args.entry = "attention_decoder" /\ args.bow_mask # <<>>) =>
          /\ \A k \in 1..Len(outputs), b \in Batch, v \in Symbols :
                args.bow_mask[1][b][v] = 0 => outputs[k][b][v] = 0
          /\ (args.loop_function # "None" /\ outputs # <<>>) =>
                prev = <<outputs[Len(outputs)]>>
          /\ \A k \in 2..Len(inps) :
                args.loop_function # "None" =>
                  inps[k] = loop_function(args, outputs[k - 1]))
  /\ [][(AttentionStepPending /\ args.bow_mask # <<>> /\ PendingStep.err = "")
          => outputs' =
               Append(outputs,
                      [b \in Batch |->
                         [v \in Symbols |->
                            PendingStep.logits[b][v] * args.bow_mask[1][b][v]]])
       ]_vars

\* The logits of step 0 before the mask.
FirstLogits ==
  attention_step(args, InitialState,
                 IF args.initial_state_attention
                   THEN attention(args, InitialState) ELSE zero_attns(args),
                 emb_inp(args)[1]).logits

\* Under a bow_mask and a loop function two steps were built, and at step 0
\* the mask zeroed a logit that was not 0 and kept one that was not 0.
C28_Witness ==
  /\ args.entry = "attention_decoder"
  /\ args.bow_mask # <<>>
  /\ args.loop_function # "None"
  /\ Len(outputs) >= 2
  /\ \E b \in Batch, v \in Symbols :
        /\ args.bow_mask[1][b][v] = 0
        /\ FirstLogits[b][v] # 0
        /\ outputs[1][b][v] = 0
  /\ \E b \in Batch, v \in Symbols :
        args.bow_mask[1][b][v] = 1 /\ outputs[1][b][v] # 0

\* The cells the claim names: a BOWCell around an LSTM cell, plain or
\* dropout-wrapped, or around a MultiRNNCell whose first layer is one.
LstmCells ==
  { <<"LSTMCell">>, <<"BasicLSTMCell">>, <<"DropoutWrapper", "LSTMCell">>,
    <<"DropoutWrapper", "BasicLSTMCell">> }

BowCellAroundLstm ==
  args.cell \in { <<"BOWCell">> \o c : c \in LstmCells }
                  \cup { <<"BOWCell", "MultiRNNCell">> \o c : c \in LstmCells }

\* The loop of attention_decoder has been entered and no step is built yet.
AtLoopStart ==
  args.entry = "attention_decoder" /\ pc = "loop" /\ outputs = <<>>

\* C30: attention_decoder with encoder == "bow" and init_const unset replaces
\* the supplied initial_state by the closed-form state of init_state (from the
\* combination of the memory cells weighted by softmax of the source mask)
\* only when the cell is a BOWCell around an LSTM cell; for every other cell
\* it raises NotImplementedError before any decoder step is built.  Without
\* encoder == "bow" the loop starts from the supplied initial_state.
C30_BowInitialState ==
  (args.entry = "attention_decoder" /\ pc # "check"
     /\ attention_decoder_checks(args) = "") =>
    /\ (args.encoder = "bow" /\ ~args.init_const /\ BowCellAroundLstm) =>
         /\ err # "NotImplementedError"
         /\ AtLoopStart => state = init_state(args)
    /\ (args.encoder = "bow" /\ ~args.init_const /\ ~BowCellAroundLstm) =>
         /\ pc = "raised" /\ err = "NotImplementedError"
         /\ outputs = <<>> /\ inps = <<>>
    /\ args.encoder # "bow" =>
         /\ err # "NotImplementedError"
         /\ AtLoopStart => state = InitialState

\* The loop starts from the closed-form state of a BOWCell around a
\* MultiRNNCell of two layers whose first layer is a dropout-wrapped LSTM
\* cell, a state that is not the supplied initial_state.
C30_Witness ==
  /\ AtLoopStart
  /\ args.encoder = "bow" /\ ~args.init_const
  /\ args.cell = <<"BOWCell", "MultiRNNCell", "DropoutWrapper", "BasicLSTMCell">>
  /\ args.num_layers = 2
  /\ state = init_state(args)
  /\ state # InitialState

\* The same for the even values of cell.output_size alone.
MaxoutPairwiseMaxEven ==
  [][(AttentionStepPending /\ args.maxout_layer
        /\ args.cell_output_size % 2 = 0)
       => outputs' = Append(outputs, PairwiseMaxOutput)]_vars

-----------------------------------------------------------------------------
(* Properties of the attention mechanism. *)

Heads == 1..args.num_heads

\* attention(query) has been run on the current state: a step has been built.
AttentionRan == args.entry = "attention_decoder" /\ Len(outputs) >= 1

\* C12: in attention(query), for every head, batch element and source position
\* t, the attention weight a_t is 0 wherever src_mask is 0 at position t.
C12_MaskedWeightsZero ==
  (AttentionRan /\ args.src_mask # <<>>) =>
    \A a \in Heads, b \in Batch, t \in 1..AttnLength :
       args.src_mask[1][b][t] = 0 =>
         softmax_num(a, args.src_mask, state, b, t) = 0

MinOf(S) == CHOOSE m \in S : \A x \in S : m <= x

MaxOfSet(S) == CHOOSE m \in S : \A x \in S : x <= m

AttentionStateValues(b) == {attention_states[b][t] : t \in 1..AttnLength}

\* C13: in attention(query), for every head and batch element the weights over
\* the source positions sum to 1 (their numerators sum to the common, non-zero
\* denominator), with or without src_mask and also under a mask that is zero
\* everywhere; the context they give is then a weighted mean of the attention
\* states, between the smallest and the largest of them.
C13_WeightsSumToOne ==
  AttentionRan =>
    \A a \in Heads, b \in Batch :
       /\ softmax_den(a, args.src_mask, state, b) > 0
       /\ SumSeq([t \in 1..AttnLength |->
                    softmax_num(a, args.src_mask, state, b, t)])
            = softmax_den(a, args.src_mask, state, b)
       /\ attns[a][b] >= 4 * MinOf(AttentionStateValues(b))
       /\ attns[a][b] <= 4 * MaxOfSet(AttentionStateValues(b))

\* attention ran under a src_mask that is zero everywhere, on scores that
\* are not all equal before the mask.
C13_Witness ==
  /\ AttentionRan
  /\ args.src_mask = ConstantMask(0)
  /\ \E a \in Heads, b \in Batch :
        softmax_num(a, <<>>, state, b, 1) # softmax_num(a, <<>>, state, b, 2)

\* The outputs and the state of attention_decoder once n steps are built,
\* continued from the state st, the attention contexts at and the outputs outs.
RECURSIVE AttentionRunFrom(_, _, _, _, _)
AttentionRunFrom(ar, st, at, outs, n) ==
  IF Len(outs) >= n THEN [outputs |-> outs, state |-> st]
  ELSE LET i == Len(outs)
           p == IF ar.loop_function # "None" /\ i > 0 THEN <<outs[i]>> ELSE <<>>
           inp == attention_step_input(ar, p, i)
           x == linear_input(inp, at)
           new_state == cell_state(x, st)
           new_attns == attention(ar, new_state)
           output == linear_output(cell_output(x, st), new_attns)
       IN  AttentionRunFrom(ar, new_state, new_attns, Append(outs, output), n)

\* The outputs and the state of n steps of attention_decoder started with the
\* attention contexts at0.
AttentionRun(ar, at0, n) == AttentionRunFrom(ar, InitialState, at0, <<>>, n)

AllOnesMask == args.entry = "attention_decoder" /\ args.src_mask = ConstantMask(1)

\* C18 as stated: under an all-ones source mask, attention_decoder with
\* initial_state_attention=True produces the output sequence and the final
\* state of the run with initial_state_attention=False.
C18_SameOutputsAsWithoutInitialAttention ==
  (AllOnesMask /\ args.initial_state_attention /\ pc \in {"loop", "done"}) =>
    /\ outputs = AttentionRun(args, zero_attns(args), Len(outputs)).outputs
    /\ state = AttentionRun(args, zero_attns(args), Len(outputs)).state

\* C18 amended: the run with initial_state_attention=True is the run with
\* initial_state_attention=False started from the attention contexts of the
\* initial state in place of zeros; those contexts are merged into the input
\* of step 0, so the outputs and the final state are those of that run, not
\* those of the run started from zeros.
C18_RunFromInitialAttention ==
  (AllOnesMask /\ pc \in {"loop", "done"}) =>
    LET at0 == IF args.initial_state_attention
                 THEN attention(args, InitialState) ELSE zero_attns(args)
    IN  /\ outputs = AttentionRun(args, at0, Len(outputs)).outputs
        /\ state = AttentionRun(args, at0, Len(outputs)).state

\* A run with initial_state_attention=True returned outputs that the run
\* from zero contexts does not give.
C18_Witness ==
  /\ AllOnesMask
  /\ args.initial_state_attention
  /\ pc = "done"
  /\ Len(outputs) >= 2
  /\ outputs # AttentionRun(args, zero_attns(args), Len(outputs)).outputs

-----------------------------------------------------------------------------
(* Properties of the decoders under teacher forcing. *)

\* The outputs and the state of rnn_decoder without scheduled sampling once n
\* steps are built, continued from the state st and the outputs outs.
RECURSIVE RnnRunFrom(_, _, _, _)
RnnRunFrom(a, st, outs, n) ==
  IF Len(outs) >= n THEN [outputs |-> outs, state |-> st]
  ELSE LET i == Len(outs)
           p == IF i > 0 THEN <<outs[i]>> ELSE <<>>
           inp == inner_loop(a, p, emb_inp(a)[i + 1], a.loop_function # "None")
       IN  RnnRunFrom(a, cell_state(inp, st), Append(outs, cell_output(inp, st)), n)

\* The first n outputs of the call `a` of either decoder.
DecoderRun(a, n) ==
  IF a.entry = "attention_decoder"
    THEN AttentionRunFrom(a, InitialState,
                          IF a.initial_state_attention
                            THEN attention(a, InitialState) ELSE zero_attns(a),
                          <<>>, n).outputs
    ELSE RnnRunFrom(a, InitialState, <<>>, n).outputs

\* The decoder runs without a loop function and without scheduled sampling.
TeacherForcing ==
  /\ args.loop_function = "None" /\ args.feed_prev_p = NoneP
  /\ pc \in {"loop", "done"}

\* The calls that differ from the call under way in the decoder inputs after
\* the first k alone: none after them, or one, of any value.
SameUpTo(k) ==
  { [args EXCEPT !.decoder_inputs = SubSeq(args.decoder_inputs, 1, k) \o t] :
      t \in {<<>>} \cup {<<r>> : r \in TokenRows} }

\* C22: under teacher forcing the outputs of steps 0..i depend on the decoder
\* inputs of steps <= i, the initial state and the attention states alone: a
\* run whose decoder inputs agree with those of this run on the first k steps
\* gives the first k outputs of this run, whatever comes after them.
C22_NoLeakFromLaterInputs ==
  TeacherForcing =>
    \A k \in 1..Len(outputs) :
       \A a2 \in SameUpTo(k) : DecoderRun(a2, k) = SubSeq(outputs, 1, k)

\* An attention decoder with two heads built two of its three steps, and the
\* input of the third step can still take another value.
C22_Witness ==
  /\ TeacherForcing
  /\ args.entry = "attention_decoder"
  /\ args.num_heads = 2
  /\ Len(args.decoder_inputs) = 3
  /\ Len(outputs) = 2
  /\ \E a2 \in SameUpTo(2) :
        /\ Len(a2.decoder_inputs) = 3
        /\ a2.decoder_inputs[3] # args.decoder_inputs[3]

-----------------------------------------------------------------------------
(* Termination of the decoder loops. *)

\* The outputs and the state that the steps built so far give when replayed on
\* the inputs they consumed (inps), from the state st, the contexts at and the
\* outputs outs.
RECURSIVE ReplayFrom(_, _, _)
ReplayFrom(st, at, outs) ==
  IF Len(outs) >= Len(inps) THEN [outputs |-> outs, state |-> st]
  ELSE LET inp == inps[Len(outs) + 1]
       IN  IF args.entry = "attention_decoder"
             THEN LET x == linear_input(inp, at)
                      new_state == cell_state(x, st)
                      new_attns == attention(args, new_state)
                  IN  ReplayFrom(new_state, new_attns,
                                 Append(outs, linear_output(cell_output(x, st),
                                                            new_attns)))
             ELSE ReplayFrom(cell_state(inp, st), at,
                             Append(outs, cell_output(inp, st)))

Replay ==
  ReplayFrom(InitialState,
             IF args.entry = "attention_decoder" /\ args.initial_state_attention
               THEN attention(args, InitialState)
               ELSE [a \in 1..args.num_heads |-> [b \in Batch |-> 0]],
             <<>>)

\* C21: the loop of rnn_decoder and of attention_decoder ends (by a return or
\* by an exception); it never builds more steps than there are decoder inputs;
\* when it returns it has built exactly len(decoder_inputs) steps and returns
\* one output per step, in step order, with the cell state of the last step.
C21_LoopTerminates ==
  /\ <>(pc \in {"done", "raised"})
  /\ [](Len(outputs) <= Len(args.decoder_inputs) /\ Len(inps) = Len(outputs))
  /\ [](pc = "done" =>
          /\ Len(outputs) = Len(args.decoder_inputs)
          /\ outputs = Replay.outputs
          /\ state = Replay.state)
  /\ [][Len(outputs') >= Len(outputs)
          /\ SubSeq(outputs', 1, Len(outputs)) = outputs]_vars

\* A decoder returned after three steps under scheduled sampling, and an
\* attention decoder would have been able to as well: the state returned is
\* not the initial state.
C21_Witness ==
  /\ pc = "done"
  /\ Len(outputs) = 3
  /\ Len(args.decoder_inputs) = 3
  /\ state = Replay.state
  /\ state # InitialState

-----------------------------------------------------------------------------
(* Properties of the seq2seq builders. *)

\* The encoder modes with a branch in the builder.
SupportedEncoder(fn, encoder) ==
  IF fn = "embedding_attention_seq2seq"
    THEN encoder \in {"bidirectional", "reverse", "bow"}
    ELSE encoder \in {"bidirectional", "reverse"}

\* C11: a builder called with an encoder value it does not support raises, and
\* raises before any encoder or decoder computation is built.
C11_UnsupportedEncoderRaisesFirst ==
  (sq.fn # "" /\ ~SupportedEncoder(sq.fn, sq.encoder)) =>
    /\ sq.built = <<>>
    /\ sq.pc # "done"
    /\ sq.pc \notin {"encoder", "body"} => sq.pc = "raised"

VaeReturned == sq.fn = "embedding_rnn_vae_seq2seq" /\ sq.pc = "done"

VaeZMean == latent_gain(vae_z_mean(sq.encoder_value[1]), sq.z_gain.mean)

VaeZLogVar == latent_gain(vae_z_log_var(sq.encoder_value[1]), sq.z_gain.log_var)

VaeZSample == vae_z_sample(VaeZMean, VaeZLogVar, sq.eps[1])

VaeKlLoss == vae_kl_loss(VaeZMean, VaeZLogVar)

\* C14: embedding_rnn_vae_seq2seq called with latent_state returns that tensor
\* as z, and the KL term it returns is the one computed from the encoder state
\* (z_mean, z_log_var), whatever latent_state is.
C14_LatentStateReturnedKlFromEncoder ==
  (VaeReturned /\ sq.latent_state # <<>>) =>
    /\ sq.ret.z = sq.latent_state[1]
    /\ sq.ret.kl_obj # <<>> =>
         sq.ret.kl_obj[1] = vae_kl_obj(VaeKlLoss, sq.kl_min, sq.anneal_scale)
    /\ sq.ret.kl_loss # <<>> => sq.ret.kl_loss[1] = VaeKlLoss

\* The call returned a supplied latent_state that is neither the mean nor the
\* sample of the encoder state, with sample_mean set.
C14_Witness ==
  /\ VaeReturned
  /\ sq.latent_state # <<>>
  /\ sq.ret.z # VaeZMean
  /\ sq.ret.z # VaeZSample
  /\ sq.sample_mean
  /\ sq.feed_previous = "True"
  /\ sq.ret.kl_obj # <<>>

\* C15 as stated: z is latent_state whenever one is given, z_mean whenever
\* sample_mean is set, and the reparameterized sample otherwise, whatever the
\* other arguments.
C15_SelectionByFlagsAlone ==
  VaeReturned =>
    sq.ret.z = IF sq.latent_state # <<>> THEN sq.latent_state[1]
               ELSE IF sq.sample_mean THEN VaeZMean
               ELSE VaeZSample

\* C15 amended: z is latent_state whenever one is given; otherwise z_mean when
\* sample_mean and feed_previous are both set, and the reparameterized sample
\* when either is not.
C15_SelectionByFlagsAndFeedPrevious ==
  VaeReturned =>
    sq.ret.z = IF sq.latent_state # <<>> THEN sq.latent_state[1]
               ELSE IF sq.sample_mean /\ sq.feed_previous # "False" THEN VaeZMean
               ELSE VaeZSample

\* The call returned the sample although sample_mean was set.
C15_Witness ==
  /\ VaeReturned
  /\ sq.latent_state = <<>>
  /\ sq.sample_mean
  /\ sq.feed_previous = "False"
  /\ sq.ret.z = VaeZSample
  /\ sq.ret.z # VaeZMean

\* The factor of the annealing on the KL objective.
AnnealFactor == IF sq.anneal_scale # NoneP THEN sq.anneal_scale ELSE AnnealDen

\* max(x, kl_min) on means held as MeanDen times their value.
FloorAtKlMin(x) ==
  IF sq.kl_min > 0 /\ x < MeanDen * sq.kl_min THEN MeanDen * sq.kl_min ELSE x

\* C16 as stated: the KL objective is the sum over the batch elements of the
\* mean across the latent dimension, each batch element floored at kl_min,
\* times anneal_scale when one is given.
C16_FloorPerBatchElement ==
  (VaeReturned /\ sq.ret.kl_obj # <<>>) =>
    sq.ret.kl_obj[1] =
      AnnealFactor *
        SumSeq([b \in Batch |->
                  FloorAtKlMin(BatchSize *
                                 SumSeq([u \in LatentUnits |-> VaeKlLoss[b][u]]))])

\* C16 amended: the KL objective is the sum over the latent units of the mean
\* across the batch, each latent unit floored at kl_min when kl_min > 0, times
\* anneal_scale when one is given.
C16_FloorPerLatentUnit ==
  (VaeReturned /\ sq.ret.kl_obj # <<>>) =>
    sq.ret.kl_obj[1] =
      AnnealFactor *
        SumSeq([u \in LatentUnits |->
                  FloorAtKlMin(LatentSize *
                                 SumSeq([b \in Batch |-> VaeKlLoss[b][u]]))])

\* An annealed objective was returned in which the floor raised the mean of
\* one latent unit and left that of another.
C16_Witness ==
  /\ VaeReturned
  /\ sq.ret.kl_obj # <<>>
  /\ sq.kl_min > 0
  /\ sq.anneal_scale \notin {NoneP, 0}
  /\ \E u \in LatentUnits :
        LatentSize * SumSeq([b \in Batch |-> VaeKlLoss[b][u]]) < MeanDen * sq.kl_min
  /\ \E u \in LatentUnits :
        LatentSize * SumSeq([b \in Batch |-> VaeKlLoss[b][u]]) > MeanDen * sq.kl_min

-----------------------------------------------------------------------------
(* Properties of model_with_buckets_states. *)

MaxOf(S) == CHOOSE m \in S : \A x \in S : x <= m

MaxBucketDim(b, d) == MaxOf({b.buckets[j][d] : j \in 1..Len(b.buckets)})

\* C6: whenever model_with_buckets_states returns, outputs[j] has length
\* buckets[j][1] for every bucket j.
C6_OutputLengths ==
  bk.pc = "done" =>
    \A j \in 1..Len(bk.buckets) : Len(bk.outputs[j]) = bk.buckets[j][2]

\* C7: model_with_buckets_states raises ValueError before building any bucket
\* whenever encoder_inputs is shorter than the largest bucket[0], or targets
\* or weights is shorter than the largest bucket[1], for every list of buckets.
C7_RaisesBelowLargestBucket ==
  ( /\ bk.pc \in {"loop", "done", "raised"}
    /\ bk.buckets # <<>>
    /\ \/ Len(bk.encoder_inputs) < MaxBucketDim(bk, 1)
       \/ Len(bk.targets) < MaxBucketDim(bk, 2)
       \/ Len(bk.weights) < MaxBucketDim(bk, 2) )
  => ( /\ bk.pc = "raised"
       /\ bk.err \in {"ValueError: encoder_inputs", "ValueError: targets",
                      "ValueError: weights"}
       /\ bk.outputs = <<>> )

\* The slices of targets and weights of bucket j (1-based).
BucketTargets(j) == Slice(bk.targets, bk.buckets[j][2])

BucketWeights(j) == Slice(bk.weights, bk.buckets[j][2])

\* C17 as stated: when seq2seq returns a KL term, the entry of each bucket is
\* the pair (reconstruction loss, KL term) whose KL component is the batch
\* mean of the returned KL term, whatever the target weights, and whose
\* reconstruction loss is the loss reported without a KL term.
C17_KlIsBatchMean ==
  bk.seq2seq.kl_obj # <<>> =>
    \A j \in 1..Len(bk.losses) :
       /\ bk.losses[j].kl =
            <<[reduce_mean |-> [b \in Batch |-> quotient(bk.seq2seq.kl_obj[1], 1, 0)]]>>
       /\ bk.losses[j].loss =
            bucket_loss(bk.per_example_loss, bk.outputs[j], BucketTargets(j),
                        BucketWeights(j))

\* C17 amended: the KL component of bucket j is the batch mean, over the
\* examples b, of the returned KL term divided by (the sum of the weights of
\* example b over the steps of the bucket + 1e-12), so it depends on the
\* target weights; the reconstruction loss is the loss reported without a KL
\* term, and without a KL term the entry has no KL component.
C17_KlDividedByWeights ==
  \A j \in 1..Len(bk.losses) :
     /\ bk.losses[j].loss =
          bucket_loss(bk.per_example_loss, bk.outputs[j], BucketTargets(j),
                      BucketWeights(j))
     /\ bk.seq2seq.kl_obj = <<>> => bk.losses[j].kl = <<>>
     /\ bk.seq2seq.kl_obj # <<>> =>
          /\ Len(bk.losses[j].kl) = 1
          /\ \A b \in Batch :
                LET q == bk.losses[j].kl[1].reduce_mean[b]
                IN  /\ q.num = bk.seq2seq.kl_obj[1]
                    /\ q.den = Len(BucketWeights(j)) * bk.weight[b]
                    /\ q.eps = 1
                    /\ ~q.nan

\* Two buckets of different decoder lengths were built with a KL term, for
\* weights that are zero for one example and not for another.
C17_Witness ==
  /\ bk.pc = "done"
  /\ bk.seq2seq.kl_obj # <<>>
  /\ Len(bk.losses) >= 2
  /\ Len(BucketWeights(1)) # Len(BucketWeights(2))
  /\ \E b \in Batch : bk.weight[b] = 0
  /\ \E b \in Batch : bk.weight[b] = 1

\* C19: seq2seq is called once per bucket, in bucket order, with exactly the
\* two inputs encoder_inputs[:bucket[0]] and decoder_inputs[:bucket[1]], so
\* that a model function of two arguments is accepted.
C19_TwoArgumentCall ==
  /\ Len(bk.calls) <= Len(bk.buckets)
  /\ \A j \in 1..Len(bk.calls) :
        /\ Len(bk.calls[j]) = 2
        /\ bk.calls[j][1] = Slice(bk.encoder_inputs, bk.buckets[j][1])
        /\ bk.calls[j][2] = Slice(bk.decoder_inputs, bk.buckets[j][2])
  /\ bk.seq2seq.arity = 2 => bk.err # "TypeError"

VariableErrors ==
  {"ValueError: variable does not exist", "ValueError: variable already exists"}

\* C20: the first bucket built creates the parameters; every later bucket
\* finds each parameter it asks for and creates none, so the parameter set
\* after every bucket is the set after the first bucket.
C20_BucketsShareParameters ==
  /\ bk.err \notin VariableErrors
  /\ Len(bk.stores) >= 1 => bk.stores[1] # {}
  /\ \A j \in 1..Len(bk.stores) : bk.stores[j] = bk.stores[1]
  /\ Len(bk.stores) >= 1 => bk.store = bk.stores[1]

\* An attention model with initial_state_attention was built for a bucket and
\* then for a bucket with more decoder steps.
C20_Witness ==
  /\ bk.pc = "done"
  /\ bk.seq2seq.kind = "embedding_attention_seq2seq"
  /\ bk.seq2seq.initial_state_attention
  /\ Len(bk.stores) >= 2
  /\ Len(bk.outputs[1]) < Len(bk.outputs[2])

-----------------------------------------------------------------------------
(* Properties of sequence_loss_by_example. *)

LossLengthsDiffer ==
  Len(ls.targets) # Len(ls.logits) \/ Len(ls.weights) # Len(ls.logits)

\* C8 as stated: sequence_loss_by_example raises ValueError if and only if
\* the lengths of logits, targets and weights differ; with equal lengths it
\* raises nothing and returns a per-example loss.
C8_RaisesIffLengthsDiffer ==
  ls.pc \in {"loop", "done", "raised"} =>
    /\ ls.pc = "raised" <=> LossLengthsDiffer
    /\ ls.pc = "done" => DOMAIN ls.result = Batch

\* C8 amended: it raises ValueError if and only if the lengths differ or the
\* three lists are empty (add_n of no tensors); with equal, non-zero lengths
\* it raises nothing and returns a per-example loss.
C8_RaisesIffLengthsDifferOrEmpty ==
  ls.pc \in {"loop", "done", "raised"} =>
    /\ LossLengthsDiffer => (ls.pc = "raised" /\ ls.err = "ValueError: lengths")
    /\ ls.pc = "raised" => (LossLengthsDiffer \/ ls.logits = <<>>)
    /\ (~LossLengthsDiffer /\ ls.logits = <<>>) => ls.pc # "done"
    /\ ls.pc = "done" => DOMAIN ls.result = Batch

\* The call raised on a weights list of another length than logits and targets.
C8_Witness ==
  /\ ls.pc = "raised"
  /\ Len(ls.targets) = Len(ls.logits)
  /\ Len(ls.weights) # Len(ls.logits)
  /\ ls.logits # <<>>

\* The sum over the steps of crossent * weight for example b, and of the weights.
WeightedSum(b) ==
  SumSeq([k \in 1..Len(ls.logits) |->
            crossent(ls.logits[k], ls.targets[k])[b] * ls.weights[k][b]])

WeightSum(b) == SumSeq([k \in 1..Len(ls.weights) |-> ls.weights[k][b]])

AllZeroWeights(b) == \A k \in 1..Len(ls.weights) : ls.weights[k][b] = 0

\* C9: the loss of each example is the sum over the steps of
\* crossent * weight, divided by (sum of the weights + epsilon) when
\* average_across_timesteps is set; an example whose weights are all zero is
\* no error and has loss 0.
C9_WeightedAverage ==
  /\ ls.pc = "done" =>
       \A b \in Batch :
          /\ ls.result[b].num = WeightedSum(b)
          /\ ~ls.result[b].nan
          /\ ls.average_across_timesteps =>
               (ls.result[b].den = WeightSum(b) /\ ls.result[b].eps = 1)
          /\ ~ls.average_across_timesteps =>
               (ls.result[b].den = 1 /\ ls.result[b].eps = 0)
          /\ AllZeroWeights(b) => ls.result[b].num = 0
  /\ (ls.pc = "raised" /\ ~LossLengthsDiffer) => ls.logits = <<>>

\* An averaged loss was returned for a batch in which an example has all-zero
\* weights and another has not.
C9_Witness ==
  /\ ls.pc = "done"
  /\ ls.average_across_timesteps
  /\ Len(ls.logits) >= 2
  /\ \E b \in Batch : AllZeroWeights(b)
  /\ \E b \in Batch : WeightSum(b) >= 2

-----------------------------------------------------------------------------
(* The elementwise KL of embedding_rnn_vae_seq2seq. *)

\* kl_loss has been computed.
VaeLatentBuilt ==
  sq.fn = "embedding_rnn_vae_seq2seq" /\ sq.pc \in {"decoder", "done"}

\* C24: for every pair (mean, log_var) the elementwise KL value
\* -0.5 * (1 + log_var - mean^2 - exp(log_var)) is >= 0, in kl_loss as computed
\* and in the kl_loss the call returns.
C24_KlElementwiseNonNegative ==
  VaeLatentBuilt =>
    /\ \A b \in Batch, u \in LatentUnits : VaeKlLoss[b][u] >= 0
    /\ (sq.pc = "done" /\ sq.ret.kl_loss # <<>>) =>
         \A b \in Batch, u \in LatentUnits : sq.ret.kl_loss[1][b][u] >= 0

\* kl_loss holds an element from a mean of 0 and a log_var below -1, one from
\* a log_var of 0 and one from a positive log_var next to a non-zero mean.
C24_Witness ==
  /\ VaeLatentBuilt
  /\ \E b \in Batch, u \in LatentUnits :
        VaeZMean[b][u] = 0 /\ VaeZLogVar[b][u] < -1000 /\ VaeKlLoss[b][u] > 0
  /\ \E b \in Batch, u \in LatentUnits :
        VaeZLogVar[b][u] = 0 /\ VaeKlLoss[b][u] > 0
  /\ \E b \in Batch, u \in LatentUnits :
        VaeZLogVar[b][u] > 0 /\ VaeZMean[b][u] # 0 /\ VaeKlLoss[b][u] > 0

-----------------------------------------------------------------------------
(* The return paths of embedding_rnn_vae_seq2seq. *)

\* C29: embedding_rnn_vae_seq2seq returns the same third value on both return
\* paths: with feed_previous a Python bool or a boolean tensor, the third value
\* is the aggregated objective kl_obj, never the per-unit KL matrix kl_loss.
C29_SameThirdValueOnBothPaths ==
  VaeReturned => (sq.ret.kl_obj = sq.kl_obj /\ sq.ret.kl_loss = <<>>)

-----------------------------------------------------------------------------
(* Properties of ptb_iterator. *)

\* The generator has been advanced at least once.
ReaderAdvanced == rd.pc \in {"yielded", "raised", "exhausted"}

\* No pair of shape [batch_size, num_steps] fits: x needs num_steps columns of
\* a row and y one column more.
NoBatchFits ==
  (Len(rd.raw_data) \div rd.batch_size) < rd.num_steps + 1

\* C23: ptb_iterator raises ValueError whenever batch_size or num_steps is too
\* high for the data to yield one batch from start_idx = 0, batch_size above
\* len(raw_data) included.
C23_RaisesWhenNoBatchFits ==
  (ReaderAdvanced /\ rd.start_idx = 0 /\ NoBatchFits) =>
    (rd.pc = "raised" /\ rd.err = "ValueError")

====
